---- MODULE Spec2Model ----
(***************************************************************************)
(* Model of the Telegram -> Google Photos sync bot.                        *)
(*                                                                         *)
(*   - bot/google_photos.py : GooglePhotosClient._request_with_retry, the  *)
(*     uniform retry/backoff wrapper (specification SpecRetry);            *)
(*   - bot/database.py      : the three SQLite tables and their operations;*)
(*   - bot/handlers.py      : handle_media, the sync orchestrator, one     *)
(*     step per await point (specification Spec: events handled one at a   *)
(*     time).                                                              *)
(***************************************************************************)
EXTENDS Integers, Sequences, FiniteSets, TLC

VARIABLES
    \* ---- bot/google_photos.py: one call of _request_with_retry ----
    rq_pc,          \* position of the call
    max_retries,    \* value of the module global MAX_RETRIES during the call
    attempt,        \* loop variable of "for attempt in range(MAX_RETRIES)"
    delay,          \* local "delay"
    last_exc,       \* local "last_exc"
    rq_result,      \* what the call returned or raised
    rq_log,         \* history: every sleep, token acquisition and request
    credentials,    \* self._credentials: the cached access token
    extra_headers,  \* parameter "extra_headers" of the call
    token,          \* local "token" of the current attempt
    rq_sent,        \* history: token and headers of every request sent
    \* ---- bot/database.py: the tables ----
    processed_messages,   \* rows <<chat_id, message_id>>
    album_cache,          \* rows <<group_title, album_id>>
    chat_titles,          \* rows <<chat_id, group_title>>
    \* ---- remote service ----
    albums,         \* albums created by this client: Seq of titles, id = index
    media_items,    \* media items, one per successful upload_media, in order
    \* ---- bot/handlers.py: executions of handle_media ----
    config,         \* config.allowed_group_ids
    run,            \* run[w]: locals and position of execution w
    \* ---- history ----
    deliveries,     \* number of events delivered so far
    store_faults,   \* the fault model: whether store calls can raise
    \* ---- single calls of the client and of the fetcher ----
    goc,            \* one call of GooglePhotosClient.get_or_create_album
    up,             \* one call of GooglePhotosClient.upload_media
    dl,             \* one call of media.download_media
    db_op,          \* the last call of a Database method, with the store before it
    pu,             \* one call of GooglePhotosClient.get_album_product_url
    lk              \* one handling of the link command

rq_vars == <<rq_pc, max_retries, attempt, delay, last_exc, rq_result, rq_log,
             credentials, extra_headers, token, rq_sent>>
db_vars == <<processed_messages, album_cache, chat_titles>>
hm_vars == <<db_vars, albums, media_items, config, run, deliveries, store_faults>>
cl_vars == <<goc, up, dl>>
aux_vars == <<db_op, pu, lk>>
vars == <<rq_vars, hm_vars, cl_vars, aux_vars>>

Min(a, b) == IF a < b THEN a ELSE b
Max(a, b) == IF a > b THEN a ELSE b

(***************************************************************************)
(* bot/google_photos.py                                                    *)
(***************************************************************************)
MIN_RETRY_DELAY_SEC == 30
MAX_RETRIES == 4
RETRYABLE_STATUS_CODES == {429, 500, 502, 503, 504}
MAX_DELAY_SEC == 120

\* The HTTP statuses the remote service answers with in the model.
Statuses == {200, 204, 304, 400, 404, 429, 500, 501, 502, 503, 504}

\* What client.request does on one attempt: raise httpx.HTTPError (transport
\* failure) or return a response with a status.
Outcomes ==
    {[kind |-> "transport", status |-> 0]}
        \cup {[kind |-> "response", status |-> s] : s \in Statuses}

NoExc == [type |-> "None", status |-> 0]
HTTPError == [type |-> "httpx.HTTPError", status |-> 0]
GooglePhotosError(status) == [type |-> "GooglePhotosError", status |-> status]
HTTPStatusError(status) == [type |-> "httpx.HTTPStatusError", status |-> status]
RefreshError == [type |-> "RefreshError", status |-> 0]

\* resp.is_success, the test of resp.raise_for_status()
IsSuccess(status) == status >= 200 /\ status <= 299

\* fault: every 5xx status taken as retryable
IsRetryableAny5xx(status) == status = 429 \/ status >= 500

IsRetryable(status) == status \in RETRYABLE_STATUS_CODES

\* fault: the doubling after a transport failure without the 120 s cap
BackoffAfterTransportNoCap(d) == d * 2

\* delay = min(delay * 2, 120), after a transport failure
BackoffAfterTransport(d) == Min(d * 2, MAX_DELAY_SEC)

\* delay = max(delay, MIN_RETRY_DELAY_SEC); delay = min(delay * 2, 120)
BackoffAfterStatus(d) == Min(Max(d, MIN_RETRY_DELAY_SEC) * 2, MAX_DELAY_SEC)

\* the initial value of "delay"
InitialDelay == MIN_RETRY_DELAY_SEC

\* Credentials.token is None
NoToken == 0

\* self._credentials.expired or not self._credentials.valid, where valid is
\* "token is not None and not expired"
NeedsRefresh(cred, expired) == expired \/ cred.token = NoToken

\* dicts of headers are sets of <<name, value>> rows, one row per name
DictUpdate(d, e) == {r \in d : \A x \in e : x[1] # r[1]} \cup e
DictGet(d, k) == (CHOOSE r \in d : r[1] = k)[2]
DictKeys(d) == {r[1] : r \in d}

Bearer(tok) == <<"Bearer", tok>>

\* _auth_headers: {"Authorization": f"Bearer {access_token}"}
AuthHeaders(tok) == {<<"Authorization", Bearer(tok)>>}

\* request_headers = self._auth_headers(token)
\* if extra_headers: request_headers.update(extra_headers)
RequestHeaders(tok, extra) ==
    IF extra # {} THEN DictUpdate(AuthHeaders(tok), extra) ELSE AuthHeaders(tok)

\* the extra_headers callers pass: none, upload headers, and a dict that
\* itself holds an Authorization entry
ExtraHeaderChoices ==
    {{},
     {<<"X-Goog-Upload-Protocol", <<"raw", 0>>>>},
     {<<"Authorization", <<"Bearer", 99>>>>, <<"X-Custom", <<"value", 0>>>>}}

LogSleep(d) == [op |-> "sleep", delay |-> d, kind |-> "-", status |-> 0]
LogToken(ok) == [op |-> "token", delay |-> 0, kind |-> IF ok THEN "ok" ELSE "fail", status |-> 0]
LogRequest(o) == [op |-> "request", delay |-> 0, kind |-> o.kind, status |-> o.status]

RqInit ==
    /\ rq_pc = "for"
    /\ max_retries \in 0..MAX_RETRIES
    /\ attempt = 0
    /\ delay = InitialDelay
    /\ last_exc = NoExc
    /\ rq_result = [kind |-> "running", status |-> 0, exc |-> NoExc]
    /\ rq_log = <<>>
    /\ credentials \in [token : {NoToken, 1}]
    /\ extra_headers \in ExtraHeaderChoices
    /\ token = NoToken
    /\ rq_sent = <<>>

\* The retry wrapper is not running (specification Spec abstracts its calls).
RqIdle ==
    /\ rq_pc = "idle"
    /\ max_retries = MAX_RETRIES
    /\ attempt = 0
    /\ delay = InitialDelay
    /\ last_exc = NoExc
    /\ rq_result = [kind |-> "running", status |-> 0, exc |-> NoExc]
    /\ rq_log = <<>>
    /\ credentials = [token |-> NoToken]
    /\ extra_headers = {}
    /\ token = NoToken
    /\ rq_sent = <<>>

\* fault: the loop bound off by one, range(MAX_RETRIES + 1)
LoopContinuesOffByOne(i, n) == i <= n

\* for attempt in range(MAX_RETRIES): whether the loop body runs once more
LoopContinues(i, n) == i < n

\* fault: the first attempt waits too
WaitsFirstAlways(i) == TRUE

\* if attempt > 0: the attempt starts with a wait
WaitsFirst(i) == i > 0

\* for attempt in range(MAX_RETRIES): ... ; after the loop: raise
RqFor ==
    /\ rq_pc = "for"
    /\ IF LoopContinues(attempt, max_retries)
         THEN /\ rq_pc' = IF WaitsFirst(attempt) THEN "sleep" ELSE "token"
              /\ UNCHANGED rq_result
         ELSE /\ rq_pc' = "raised"
              /\ rq_result' = [kind |-> "raised", status |-> 0,
                               exc |-> IF last_exc # NoExc THEN last_exc
                                       ELSE GooglePhotosError(0)]
    /\ UNCHANGED <<max_retries, attempt, delay, last_exc, rq_log,
                   credentials, extra_headers, token, rq_sent>>

\* fault: the token of the first attempt reused, no acquisition on a retry
AfterSleepNoToken == "request"

\* after the sleep the attempt goes on as a first attempt does: to line 219
AfterSleep == "token"

\* if attempt > 0: await asyncio.sleep(delay)
RqSleep ==
    /\ rq_pc = "sleep"
    /\ rq_log' = Append(rq_log, LogSleep(delay))
    /\ rq_pc' = AfterSleep
    /\ UNCHANGED <<max_retries, attempt, delay, last_exc, rq_result,
                   credentials, extra_headers, token, rq_sent>>

\* fault: the error of a failed refresh is swallowed and the request is sent
\* with the old token
OnRefreshErrorGoOn == "request"

\* line 219 is outside the try: the error of a failed refresh leaves the call
OnRefreshError == "raised"

\* token = await self._get_access_token(): refresh if needed, then return the
\* cached token. The call is outside the try: a failing refresh leaves
\* _request_with_retry at once.
RqGetAccessToken ==
    /\ rq_pc = "token"
    /\ \E expired \in BOOLEAN, ok \in BOOLEAN :
         IF NeedsRefresh(credentials, expired)
           THEN /\ rq_log' = Append(rq_log, LogToken(ok))
                /\ IF ok
                     THEN /\ credentials' = [token |-> credentials.token + 1]
                          /\ token' = credentials.token + 1
                          /\ rq_pc' = "request"
                          /\ UNCHANGED rq_result
                     ELSE /\ rq_pc' = OnRefreshError
                          /\ rq_result' = IF OnRefreshError = "raised"
                                            THEN [kind |-> "raised", status |-> 0,
                                                  exc |-> RefreshError]
                                            ELSE rq_result
                          /\ UNCHANGED <<credentials, token>>
           ELSE /\ ok
                /\ rq_log' = Append(rq_log, LogToken(TRUE))
                /\ token' = credentials.token
                /\ rq_pc' = "request"
                /\ UNCHANGED <<credentials, rq_result>>
    /\ UNCHANGED <<max_retries, attempt, delay, last_exc, extra_headers, rq_sent>>

\* try: resp = await client.request(...) and what follows it in the loop body
RqRequest ==
    /\ rq_pc = "request"
    /\ \E o \in Outcomes :
         /\ rq_log' = Append(rq_log, LogRequest(o))
         /\ rq_sent' = Append(rq_sent, [token |-> token,
                                        headers |-> RequestHeaders(token, extra_headers)])
         /\ IF o.kind = "transport"
              THEN \* except httpx.HTTPError
                   /\ last_exc' = HTTPError
                   /\ delay' = BackoffAfterTransport(delay)
                   /\ attempt' = attempt + 1
                   /\ rq_pc' = "for"
                   /\ UNCHANGED rq_result
              ELSE IF IsRetryable(o.status)
              THEN /\ last_exc' = GooglePhotosError(o.status)
                   /\ delay' = BackoffAfterStatus(delay)
                   /\ attempt' = attempt + 1
                   /\ rq_pc' = "for"
                   /\ UNCHANGED rq_result
              ELSE IF IsSuccess(o.status)
              THEN /\ rq_pc' = "returned"
                   /\ rq_result' = [kind |-> "returned", status |-> o.status, exc |-> NoExc]
                   /\ UNCHANGED <<last_exc, delay, attempt>>
              ELSE \* resp.raise_for_status() raises, outside the try
                   /\ rq_pc' = "raised"
                   /\ rq_result' = [kind |-> "raised", status |-> o.status,
                                    exc |-> HTTPStatusError(o.status)]
                   /\ UNCHANGED <<last_exc, delay, attempt>>
    /\ UNCHANGED <<max_retries, credentials, extra_headers, token>>

RqNext ==
    \/ RqFor
    \/ RqSleep
    \/ RqGetAccessToken
    \/ RqRequest

\* ---- derived history of the call ----
Requests == SelectSeq(rq_log, LAMBDA e : e.op = "request")
Sleeps == SelectSeq(rq_log, LAMBDA e : e.op = "sleep")
Sent == Len(Requests)

(***************************************************************************)
(* bot/database.py: the tables as sets of rows, the operations on them     *)
(***************************************************************************)
\* Python's None for a str | None value (titles are sequences of characters)
None == <<"<None>">>
\* Python's None for an album id (ids are positive)
NoAlbum == 0

\* fault: the dedup query finds nothing
is_processed_never(pm, chat_id, message_id) == FALSE

\* SELECT 1 FROM processed_messages WHERE chat_id = ? AND message_id = ?
is_processed(pm, chat_id, message_id) == <<chat_id, message_id>> \in pm

\* fault: the two key columns bound in the wrong order
mark_processed_swapped(pm, chat_id, message_id) == pm \cup {<<message_id, chat_id>>}

\* fault: the table is emptied before the INSERT
mark_processed_only(pm, chat_id, message_id) == {<<chat_id, message_id>>}

\* INSERT OR IGNORE INTO processed_messages
mark_processed(pm, chat_id, message_id) == pm \cup {<<chat_id, message_id>>}

\* fault: SELECT without the WHERE clause
get_album_id_any(ac, group_title) ==
    IF ac # {} THEN (CHOOSE r \in ac : TRUE)[2] ELSE NoAlbum

\* SELECT album_id FROM album_cache WHERE group_title = ?
get_album_id(ac, group_title) ==
    IF \E r \in ac : r[1] = group_title
      THEN (CHOOSE r \in ac : r[1] = group_title)[2]
      ELSE NoAlbum

\* fault: a plain INSERT into a table without the primary key
set_album_id_merge(ac, group_title, album_id) == ac \cup {<<group_title, album_id>>}

\* fault: the INSERT is never committed
set_album_id_lost(ac, group_title, album_id) == ac

\* INSERT OR REPLACE INTO album_cache (group_title is the primary key)
set_album_id(ac, group_title, album_id) ==
    {r \in ac : r[1] # group_title} \cup {<<group_title, album_id>>}

\* fault: the DELETE is never committed
delete_album_cache_lost(ac, group_title) == ac

\* fault: DELETE FROM album_cache without the WHERE clause
delete_album_cache_all(ac, group_title) == {}

\* DELETE FROM album_cache WHERE group_title = ?
delete_album_cache(ac, group_title) == {r \in ac : r[1] # group_title}

\* SELECT group_title FROM chat_titles WHERE chat_id = ?
get_chat_title(ct, chat_id) ==
    IF \E r \in ct : r[1] = chat_id
      THEN (CHOOSE r \in ct : r[1] = chat_id)[2]
      ELSE None

\* fault: the title is written to every row
set_chat_title_all(ct, chat_id, group_title) ==
    {<<r[1], group_title>> : r \in ct} \cup {<<chat_id, group_title>>}

\* fault: INSERT OR IGNORE instead of INSERT OR REPLACE
set_chat_title_ignore(ct, chat_id, group_title) ==
    IF \E r \in ct : r[1] = chat_id THEN ct ELSE ct \cup {<<chat_id, group_title>>}

\* INSERT OR REPLACE INTO chat_titles (chat_id is the primary key)
set_chat_title(ct, chat_id, group_title) ==
    {r \in ct : r[1] # chat_id} \cup {<<chat_id, group_title>>}

(***************************************************************************)
(* bot/google_photos.py: album resolution against the remote service       *)
(***************************************************************************)
ALBUM_TITLE_MAX == 500

\* title[:500] if len(title) > 500 else title
TitleTrim(title) ==
    IF Len(title) > ALBUM_TITLE_MAX THEN SubSeq(title, 1, ALBUM_TITLE_MAX) ELSE title

\* _find_album_by_title: the id of the first listed album with exactly this
\* title, or NoAlbum
FindAlbumByTitle(listing, title) ==
    IF \E i \in 1..Len(listing) : listing[i] = title
      THEN CHOOSE i \in 1..Len(listing) :
               /\ listing[i] = title
               /\ \A j \in 1..(i - 1) : listing[j] # title
      ELSE NoAlbum

\* get_or_create_album when every request succeeds: <<album id, listing after>>
GetOrCreateAlbum(listing, title) ==
    IF FindAlbumByTitle(listing, title) # NoAlbum
      THEN <<FindAlbumByTitle(listing, title), listing>>
      ELSE <<Len(listing) + 1, Append(listing, TitleTrim(title))>>

(***************************************************************************)
(* bot/google_photos.py: get_or_create_album, one step per request         *)
(***************************************************************************)
\* the largest listing the remote service starts with
MaxAlbums == 3
AlbumTitles == {<<"A">>, <<"B">>}
Listings == UNION {[1..n -> AlbumTitles] : n \in 0..MaxAlbums}

\* params["pageSize"]
PAGE_SIZE == 50
\* page_token = None; a page token is the number of albums already listed
NoPageToken == 0

\* fault: the listing loop stops after the first page
PageLoopBreaksAlways(page_token) == TRUE

\* "if not page_token: break"
PageLoopBreaks(page_token) == page_token = NoPageToken

GocIdle == [pc |-> "idle", title |-> None, page_token |-> NoPageToken, read |-> 0,
            result |-> NoAlbum, log |-> <<>>, listing |-> <<>>]

GocInit ==
    \E title \in AlbumTitles :
        goc = [GocIdle EXCEPT !.pc = "list", !.title = title, !.listing = albums]

\* the ids of the albums of a page with exactly this title
PageMatches(first, last, title) == {i \in first..last : albums[i] = title}

\* one iteration of the loop of _find_album_by_title: GET /albums with the
\* current page token; the service answers with the next k albums (at most
\* pageSize) and a nextPageToken if more remain, or the request raises
GocList ==
    /\ goc.pc = "list"
    /\ \/ /\ goc' = [goc EXCEPT !.pc = "raised",
                                 !.log = Append(@, [op |-> "list", at |-> goc.page_token,
                                                    next |-> NoPageToken,
                                                    res |-> "raise"])]
       \/ \E k \in 0..Min(PAGE_SIZE, Len(albums) - goc.page_token) :
            LET first == goc.page_token + 1
                last == goc.page_token + k
                next == IF last < Len(albums) THEN last ELSE NoPageToken
                log == Append(goc.log, [op |-> "list", at |-> goc.page_token,
                                        next |-> next, res |-> "ok"])
                hits == PageMatches(first, last, goc.title)
            IN /\ k = 0 <=> Len(albums) = goc.page_token
               /\ IF hits # {}
                    THEN \* return album["id"] of the first match
                         goc' = [goc EXCEPT !.pc = "returned", !.log = log, !.read = last,
                                            !.result = CHOOSE i \in hits : \A j \in hits : i <= j]
                    ELSE goc' = [goc EXCEPT !.log = log, !.read = last, !.page_token = next,
                                            !.pc = IF PageLoopBreaks(next) THEN "create" ELSE "list"]
    /\ UNCHANGED albums

\* _create_album: POST /albums with the title cut at 500 characters
GocCreate ==
    /\ goc.pc = "create"
    /\ \E res \in {"ok", "no_id", "raise"} :
         LET log == Append(goc.log, [op |-> "create", at |-> goc.page_token,
                                     next |-> NoPageToken, res |-> res])
         IN IF res = "ok"
              THEN /\ albums' = Append(albums, TitleTrim(goc.title))
                   /\ goc' = [goc EXCEPT !.pc = "returned", !.log = log,
                                          !.result = Len(albums) + 1]
              ELSE /\ goc' = [goc EXCEPT !.pc = "raised", !.log = log]
                   /\ UNCHANGED albums

get_or_create_album == GocList \/ GocCreate

(***************************************************************************)
(* bot/google_photos.py: upload_media, one step per request                *)
(***************************************************************************)
\* str.strip() on a string given as a sequence of characters
IsSpace(c) == c \in {" ", "\n", "\t"}

RECURSIVE LStrip(_)
LStrip(s) == IF s # <<>> /\ IsSpace(Head(s)) THEN LStrip(Tail(s)) ELSE s

RECURSIVE RStrip(_)
RStrip(s) ==
    IF s # <<>> /\ IsSpace(s[Len(s)]) THEN RStrip(SubSeq(s, 1, Len(s) - 1)) ELSE s

\* str.strip()
Strip(s) == RStrip(LStrip(s))

FILENAME_MAX == 255
\* filename[:255] if len(filename) > 255 else filename
FilenameSafe(filename) ==
    IF Len(filename) > FILENAME_MAX THEN SubSeq(filename, 1, FILENAME_MAX) ELSE filename

\* resp.text of the raw upload, as the service may send it
UploadTexts == {<<"t", "1">>, <<" ", "t", "2", "\n">>, <<"\n">>}

\* the JSON of a 2xx batchCreate response: a dict that may hold the key
\* newMediaItemResults, a list of dicts that may hold the key status, a dict
\* that may hold the key code
ItemStatuses == {{}, {<<"code", 0>>}, {<<"code", 3>>}, {<<"code", 13>>}}
Items == {{}} \cup {{<<"status", s>>} : s \in ItemStatuses}
FinalizePayloads ==
    {{}, {<<"newMediaItemResults", <<>>>>}}
      \cup {{<<"newMediaItemResults", <<i>>>>} : i \in Items}

\* d.get(k, default)
DictGetOr(d, k, default) == IF k \in DictKeys(d) THEN DictGet(d, k) ELSE default

\* fault: the item status is never inspected
StatusCodeRaisesNever(status) == FALSE

\* "if status.get("code") and status["code"] != 0"
StatusCodeRaises(status) ==
    /\ "code" \in DictKeys(status)
    /\ DictGet(status, "code") # 0
    /\ DictGet(status, "code") # 0

\* fault: the finalize body names no album
FinalizeBodyNoAlbum(upload_token, filename, album_id) ==
    [albumId |-> NoAlbum, uploadToken |-> upload_token, fileName |-> FilenameSafe(filename)]

\* the body of the batchCreate request
FinalizeBody(upload_token, filename, album_id) ==
    [albumId |-> album_id, uploadToken |-> upload_token, fileName |-> FilenameSafe(filename)]

NoBody == [albumId |-> NoAlbum, uploadToken |-> <<>>, fileName |-> <<>>]

UpIdle == [pc |-> "idle", file_bytes |-> "-", filename |-> <<>>, mime_type |-> "-",
           album_id |-> NoAlbum, upload_token |-> <<>>, text |-> <<>>, payload |-> {},
           log |-> <<>>]

UploadFilenames == {<<"p", ".", "j", "p", "g">>, <<"v", ".", "m", "p", "4">>}
UploadMimeTypes == {"image/jpeg", "video/mp4"}

UpInit ==
    \E f \in UploadFilenames, m \in UploadMimeTypes, a \in {1, 2} :
        up = [UpIdle EXCEPT !.pc = "upload_bytes", !.file_bytes = "x", !.filename = f,
                            !.mime_type = m, !.album_id = a]

\* _upload_bytes: POST /uploads with the bytes; returns resp.text.strip()
UploadBytes ==
    /\ up.pc = "upload_bytes"
    /\ \/ up' = [up EXCEPT !.pc = "raised",
                           !.log = Append(@, [op |-> "uploads", content |-> up.file_bytes,
                                              mime |-> up.mime_type, body |-> NoBody,
                                              res |-> "raise"])]
       \/ \E text \in UploadTexts :
            up' = [up EXCEPT !.pc = "create_media_item", !.text = text,
                             !.upload_token = Strip(text),
                             !.log = Append(@, [op |-> "uploads", content |-> up.file_bytes,
                                                mime |-> up.mime_type, body |-> NoBody,
                                                res |-> "ok"])]

\* _create_media_item: POST /mediaItems:batchCreate, then the inspection
\* of the first result
CreateMediaItem ==
    /\ up.pc = "create_media_item"
    /\ LET body == FinalizeBody(up.upload_token, up.filename, up.album_id)
           entry(res) == [op |-> "batchCreate", content |-> "-", mime |-> "-",
                          body |-> body, res |-> res]
       IN \/ up' = [up EXCEPT !.pc = "raised", !.log = Append(@, entry("raise"))]
          \/ \E data \in FinalizePayloads :
               LET results == DictGetOr(data, "newMediaItemResults", <<>>)
                   logged == [up EXCEPT !.payload = data, !.log = Append(@, entry("ok"))]
               IN IF results = <<>>
                    THEN up' = [logged EXCEPT !.pc = "raised"]
                    ELSE IF StatusCodeRaises(DictGetOr(results[1], "status", {}))
                           THEN up' = [logged EXCEPT !.pc = "raised"]
                           ELSE up' = [logged EXCEPT !.pc = "returned"]

upload_media == UploadBytes \/ CreateMediaItem

(***************************************************************************)
(* bot/media.py: download_media, one step per await point                  *)
(***************************************************************************)
\* Byte counts are kept exact in two limbs, mib * 2^20 + rest with
\* 0 <= rest < 2^20, since 10 * 1024^3 does not fit a 32-bit integer.
MiB == 1024 * 1024
Bytes(mib, rest) == [mib |-> mib, rest |-> rest]
\* a > b on byte counts
SizeGt(a, b) == a.mib > b.mib \/ (a.mib = b.mib /\ a.rest > b.rest)
\* a >= b on byte counts
SizeGe(a, b) == a = b \/ SizeGt(a, b)

\* 200 * 1024 * 1024
PHOTO_MAX_BYTES == Bytes(200, 0)
\* 10 * 1024 * 1024 * 1024
VIDEO_MAX_BYTES == Bytes(10 * 1024, 0)
MAX_DOWNLOAD_RETRIES == 3
RETRY_BASE_DELAY_SEC == 2

\* getattr(x, "file_size", None) is None
NoSize == Bytes(-1, 0)

\* fault: a file of exactly the limit is refused
FileSizeExceedsOrEqual(file_size, limit) == file_size # NoSize /\ SizeGe(file_size, limit)

\* _check_file_size: "file_size is not None and file_size > limit"
FileSizeExceeds(file_size, limit) == file_size # NoSize /\ SizeGt(file_size, limit)

\* declared sizes around a limit: absent, tiny, one byte under, equal, one
\* byte over
SizesAround(limit) ==
    {NoSize, Bytes(0, 1), Bytes(limit.mib - 1, MiB - 1), limit, Bytes(limit.mib, 1)}

NoVideo == [file_size |-> NoSize, file_name |-> None, mime_type |-> "<None>", present |-> FALSE]
NoVideoNote == [file_size |-> NoSize, present |-> FALSE]
Videos ==
    [file_size : SizesAround(VIDEO_MAX_BYTES),
     file_name : {None, <<"c", ".", "m", "o", "v">>, <<"d", "/", "v">>},
     mime_type : {"<None>", "video/quicktime"},
     present : {TRUE}]
VideoNotes == [file_size : SizesAround(VIDEO_MAX_BYTES), present : {TRUE}]
\* message.photo: the sizes of one photo, smallest first
PhotoLists ==
    {<<s>> : s \in SizesAround(PHOTO_MAX_BYTES)}
      \cup {<<Bytes(0, 1), s>> : s \in SizesAround(PHOTO_MAX_BYTES)}
      \cup {<<Bytes(PHOTO_MAX_BYTES.mib, 1), Bytes(0, 1)>>}

Messages ==
    [photo : PhotoLists, video : {NoVideo}, video_note : {NoVideoNote}]
      \cup [photo : {<<>>}, video : Videos, video_note : {NoVideoNote}]
      \cup [photo : {<<>>}, video : {NoVideo}, video_note : VideoNotes]
      \cup [photo : {<<>>}, video : {NoVideo}, video_note : {NoVideoNote}]
      \cup [photo : {<<Bytes(0, 1)>>},
            video : {v \in Videos : v.file_size = Bytes(VIDEO_MAX_BYTES.mib, 1)
                                     /\ v.file_name = None /\ v.mime_type = "<None>"},
            video_note : {NoVideoNote}]

\* download_media: which attachment is fetched
Attachment(message) ==
    IF message.photo # <<>> THEN "photo"
    ELSE IF message.video.present THEN "video"
    ELSE IF message.video_note.present THEN "video_note"
    ELSE "none"

\* the declared size that is checked, and the limit it is checked against
\* largest = photo_sizes[-1]: the position of the variant that is fetched
PhotoVariant(photo) == Len(photo)

DeclaredSize(message) ==
    CASE Attachment(message) = "photo" -> message.photo[PhotoVariant(message.photo)]
      [] Attachment(message) = "video" -> message.video.file_size
      [] Attachment(message) = "video_note" -> message.video_note.file_size
      [] OTHER -> NoSize
LimitOf(kind) == IF kind = "photo" THEN PHOTO_MAX_BYTES ELSE VIDEO_MAX_BYTES

\* "x" in s / s.replace("\\", "/").split("/")[-1] on character sequences
Slashes == {"/", "\\"}
RECURSIVE Basename(_)
Basename(s) ==
    IF \E i \in 1..Len(s) : s[i] \in Slashes
      THEN Basename(SubSeq(s, (CHOOSE i \in 1..Len(s) : s[i] \in Slashes /\
                                   \A j \in 1..(i - 1) : s[j] \notin Slashes) + 1, Len(s)))
      ELSE s

\* _safe_filename
SafeFilename(candidate, fallback) ==
    IF Strip(candidate) = <<>> THEN fallback
    ELSE IF Basename(Strip(candidate)) = <<>> THEN fallback
    ELSE Basename(Strip(candidate))

PhotoJpg == <<"p", "h", "o", "t", "o", ".", "j", "p", "g">>
VideoMp4 == <<"v", "i", "d", "e", "o", ".", "m", "p", "4">>
VideoNoteMp4 == <<"v", "i", "d", "e", "o", "_", "n", "o", "t", "e", ".", "m", "p", "4">>
Fallback(kind) ==
    IF kind = "photo" THEN PhotoJpg ELSE IF kind = "video" THEN VideoMp4 ELSE VideoNoteMp4

\* tg_file.file_path as the messenger API reports it (None is the empty path)
FilePaths == {<<>>, <<"d", "/", "f", ".", "x">>, <<"d", "/">>}

\* "a or b" on strings
OrElse(a, b) == IF a = <<>> \/ a = None THEN b ELSE a

NoMediaContent == [data |-> "-", filename |-> <<>>, mime_type |-> "-"]
NoDlExc == [type |-> "None", label |-> "-", size_bytes |-> NoSize, limit_bytes |-> NoSize]
FileTooLargeError(label, size_bytes, limit_bytes) ==
    [type |-> "FileTooLargeError", label |-> label, size_bytes |-> size_bytes,
     limit_bytes |-> limit_bytes]
DownloadError == [type |-> "Exception", label |-> "-", size_bytes |-> NoSize,
                  limit_bytes |-> NoSize]

DlIdle == [pc |-> "idle", message |-> [photo |-> <<>>, video |-> NoVideo,
                                       video_note |-> NoVideoNote],
           attempt |-> 0, last_exc |-> NoDlExc, failed |-> 0, raised_of |-> 0,
           file_path |-> <<>>, variant |-> 0,
           result |-> NoMediaContent, exc |-> NoDlExc, log |-> <<>>]

DlInit == \E m \in Messages : dl = [DlIdle EXCEPT !.pc = "download_media", !.message = m]

\* download_media up to the first await: dispatch on the attachment, then
\* _check_file_size
DlCheckFileSize ==
    /\ dl.pc = "download_media"
    /\ LET kind == Attachment(dl.message)
           size == DeclaredSize(dl.message)
       IN IF kind = "none"
            THEN dl' = [dl EXCEPT !.pc = "returned_none"]
            ELSE IF FileSizeExceeds(size, LimitOf(kind))
                   THEN dl' = [dl EXCEPT !.pc = "raised",
                                         !.exc = FileTooLargeError(kind, size, LimitOf(kind))]
                   ELSE dl' = [dl EXCEPT !.pc = "for",
                                         !.variant = IF kind = "photo"
                                                       THEN PhotoVariant(dl.message.photo)
                                                       ELSE 0]

\* _download_with_retry: "for attempt in range(MAX_DOWNLOAD_RETRIES)" and
\* the "raise last_exc" after it
DlFor ==
    /\ dl.pc = "for"
    /\ IF dl.attempt < MAX_DOWNLOAD_RETRIES
         THEN dl' = [dl EXCEPT !.pc = IF dl.attempt > 0 THEN "sleep" ELSE "get_file"]
         ELSE dl' = [dl EXCEPT !.pc = "raised", !.exc = dl.last_exc,
                              !.raised_of = dl.failed]

\* fault: the exponent not reduced by one
DownloadDelayLate(n) == RETRY_BASE_DELAY_SEC * 2 ^ n

\* delay = RETRY_BASE_DELAY_SEC * (2 ** (attempt - 1))
DownloadDelay(n) == RETRY_BASE_DELAY_SEC * 2 ^ (n - 1)

\* await asyncio.sleep(delay)
DlSleep ==
    /\ dl.pc = "sleep"
    /\ dl' = [dl EXCEPT !.pc = "get_file",
                        !.log = Append(@, [op |-> "sleep", arg |-> DownloadDelay(dl.attempt)])]

\* tg_file = await bot.get_file(file_id), inside the try
DlGetFile ==
    /\ dl.pc = "get_file"
    /\ \/ dl' = [dl EXCEPT !.pc = "for", !.attempt = @ + 1, !.last_exc = DownloadError,
                           !.failed = dl.attempt + 1,
                           !.log = Append(@, [op |-> "get_file", arg |-> 0])]
       \/ \E p \in FilePaths :
            dl' = [dl EXCEPT !.pc = "download_as_bytearray", !.file_path = p,
                             !.log = Append(@, [op |-> "get_file", arg |-> 1])]

\* data = await tg_file.download_as_bytearray(), inside the try; on success
\* the caller builds the MediaContent
DlDownloadAsBytearray ==
    /\ dl.pc = "download_as_bytearray"
    /\ \/ dl' = [dl EXCEPT !.pc = "for", !.attempt = @ + 1, !.last_exc = DownloadError,
                           !.failed = dl.attempt + 1,
                           !.log = Append(@, [op |-> "download", arg |-> 0])]
       \/ LET kind == Attachment(dl.message)
              safe == SafeFilename(OrElse(dl.file_path, Fallback(kind)), Fallback(kind))
              content ==
                  CASE kind = "photo" ->
                         [data |-> "x", filename |-> safe, mime_type |-> "image/jpeg"]
                    [] kind = "video" ->
                         [data |-> "x",
                          filename |-> OrElse(dl.message.video.file_name, safe),
                          mime_type |-> IF dl.message.video.mime_type = "<None>"
                                          THEN "video/mp4"
                                          ELSE dl.message.video.mime_type]
                    [] kind = "video_note" ->
                         [data |-> "x", filename |-> safe, mime_type |-> "video/mp4"]
          IN dl' = [dl EXCEPT !.pc = "returned", !.result = content,
                              !.log = Append(@, [op |-> "download", arg |-> 1])]

download_media == DlCheckFileSize \/ DlFor \/ DlSleep \/ DlGetFile \/ DlDownloadAsBytearray

(***************************************************************************)
(* bot/handlers.py: handle_media                                           *)
(***************************************************************************)
MaxDeliveries == 3
\* ... and when store calls may raise (specification SpecFaulty)
MaxFaultyDeliveries == 2

Workers == {1, 2}
\* the executions that run in specification Spec: one event at a time
SeqWorkers == {1}

Groups == {1, 2}
MessageIds == {1, 2}
ChatTypes == {"group", "supergroup", "private"}
\* chat.title as reported: absent, or a name
ReportedTitles == {None, <<"A">>, <<"B">>}
AllowLists == {{}, {1}}

Digit(n) == IF n = 1 THEN "1" ELSE IF n = 2 THEN "2" ELSE "?"

\* f"Chat_{chat_id}"
Placeholder(chat_id) == <<"C", "h", "a", "t", "_", Digit(chat_id)>>

\* truth value of a str | None
Truthy(s) == s # None /\ s # <<>>

\* fault: the title is not checked for being whitespace only
EffectiveTitleNoStrip(title, chat_id) ==
    IF Truthy(title) THEN title ELSE Placeholder(chat_id)

\* chat_title = chat.title or f"Chat_{chat_id}"
\* if not chat_title.strip(): chat_title = f"Chat_{chat_id}"
EffectiveTitle(title, chat_id) ==
    LET t == IF Truthy(title) THEN title ELSE Placeholder(chat_id)
    IN  IF ~ Truthy(Strip(t)) THEN Placeholder(chat_id) ELSE t

\* fault: supergroups are not taken as groups
IsGroupChatStrict(type) == type = "group"

\* chat.type not in ("group", "supergroup")
IsGroupChat(type) == type \in {"group", "supergroup"}

\* fault: an empty allow-list admits nobody
NotAllowedEvenIfEmpty(allowed, chat_id) == chat_id \notin allowed

\* allowed and chat_id not in allowed
NotAllowed(allowed, chat_id) == allowed # {} /\ chat_id \notin allowed

\* fault: the rename check never fires
RenameNeverDetected(stored_title, chat_title) == FALSE

\* stored_title and stored_title != chat_title
RenameDetected(stored_title, chat_title) ==
    Truthy(stored_title) /\ stored_title # chat_title

\* fault: the cached id is ignored
CacheMissAlways(album_id) == TRUE

\* not album_id
CacheMiss(album_id) == album_id = NoAlbum

NoContent == [data |-> "-", filename |-> "-", mime_type |-> "-"]
\* what download_media can return for the attachment of an event
Contents ==
    {[data |-> "x", filename |-> "p.jpg", mime_type |-> "image/jpeg"]}

Events ==
    [type : ChatTypes, chat_id : Groups, message_id : MessageIds, title : ReportedTitles]
NoEvent == [type |-> "-", chat_id |-> 0, message_id |-> 0, title |-> None]

Store == [processed_messages |-> processed_messages,
          album_cache |-> album_cache,
          chat_titles |-> chat_titles]
EmptyStore == [processed_messages |-> {}, album_cache |-> {}, chat_titles |-> {}]

\* arrival and overlap record the order in which the dispatcher started the
\* runs and whether another run was in flight when this one started
IdleRun ==
    [pc |-> "idle", exit |-> "-", at |-> "-", ev |-> NoEvent,
     arrival |-> 0, overlap |-> FALSE,
     chat_title |-> None, stored_title |-> None, content |-> NoContent,
     album_id |-> NoAlbum, calls |-> <<>>, pre |-> EmptyStore]

\* calls made by a run to the fetch adapter and the remote client
CallDownload(res) == [fn |-> "download_media", title |-> None, album_id |-> NoAlbum,
                      content |-> NoContent, res |-> res]
CallGetOrCreate(title, album_id, res) ==
    [fn |-> "get_or_create_album", title |-> title,
     album_id |-> album_id, content |-> NoContent, res |-> res]
CallUpload(content, album_id, res) == [fn |-> "upload_media", title |-> None,
                                       album_id |-> album_id, content |-> content, res |-> res]

\* what a remote call does: return, raise GooglePhotosError, raise anything else
RemoteResults == {"ok", "GooglePhotosError", "Exception"}
\* what download_media does
DownloadResults == {"content", "None", "FileTooLargeError", "Exception"}

HmInit ==
    /\ processed_messages = {}
    /\ album_cache = {}
    /\ chat_titles = {}
    /\ albums = <<>>
    /\ media_items = <<>>
    /\ config \in [allowed_group_ids : AllowLists]
    /\ run = [w \in Workers |-> IdleRun]
    /\ deliveries = 0
    /\ store_faults = FALSE

\* fault: a plain INSERT, which fails on a primary-key conflict
PlainInsert == "ABORT"

\* the conflict clause of the INSERT in mark_processed
MarkProcessedOnConflict == "IGNORE"
\* the conflict clause of the INSERTs in set_album_id and set_chat_title
SetOnConflict == "REPLACE"

\* an INSERT whose key is already present raises sqlite3.IntegrityError
\* unless a conflict clause resolves it
InsertRaises(on_conflict, conflict) == conflict /\ on_conflict = "ABORT"

\* whether a store call raises (sqlite3.Error, RuntimeError)
StoreCallFails == IF store_faults THEN BOOLEAN ELSE {FALSE}

\* the run ends: handle_media returns (exit names the return statement) ...
Return(w, how) ==
    [run EXCEPT ![w].pc = "done", ![w].exit = how, ![w].at = run[w].pc]
\* ... or an exception leaves handle_media
Raise(w) == Return(w, "raised")
Goto(w, label) == [run EXCEPT ![w].pc = label]

\* An event out of the set events is delivered to execution w; lines 25-48 run
\* without an await.
DeliverOf(w, events) ==
    /\ run[w].pc \in {"idle", "done"}
    /\ deliveries < (IF store_faults THEN MaxFaultyDeliveries ELSE MaxDeliveries)
    /\ deliveries' = deliveries + 1
    /\ \E e \in events :
         LET r == [IdleRun EXCEPT
                      !.ev = e, !.pre = Store, !.arrival = deliveries + 1,
                      !.overlap = \E v \in Workers \ {w} : run[v].pc \notin {"idle", "done"}]
         IN
         run' = [run EXCEPT ![w] =
                   IF ~ IsGroupChat(e.type)
                     THEN [r EXCEPT !.pc = "done", !.exit = "not_group", !.at = "chat_type"]
                   ELSE IF NotAllowed(config.allowed_group_ids, e.chat_id)
                     THEN [r EXCEPT !.pc = "done", !.exit = "not_allowed", !.at = "allowed"]
                   ELSE [r EXCEPT !.pc = "is_processed"]]
    /\ UNCHANGED <<db_vars, albums, media_items, config, store_faults>>

\* any event is delivered to execution w
Deliver(w) == DeliverOf(w, Events)

\* line 50-56: if await db.is_processed(chat_id, message_id): return
IsProcessed(w) ==
    /\ run[w].pc = "is_processed"
    /\ \E fails \in StoreCallFails :
         IF fails
           THEN /\ run' = Raise(w)
           ELSE /\ run' =
                     IF is_processed(processed_messages, run[w].ev.chat_id, run[w].ev.message_id)
                       THEN Return(w, "already_processed")
                       ELSE [run EXCEPT ![w].pc = "get_chat_title",
                                        ![w].chat_title =
                                            EffectiveTitle(run[w].ev.title, run[w].ev.chat_id)]
    /\ UNCHANGED <<db_vars, albums, media_items, config, deliveries, store_faults>>

\* line 59-60: stored_title = await db.get_chat_title(chat_id)
GetChatTitle(w) ==
    /\ run[w].pc = "get_chat_title"
    /\ \E fails \in StoreCallFails :
         IF fails
           THEN /\ run' = Raise(w)
           ELSE LET st == get_chat_title(chat_titles, run[w].ev.chat_id) IN
                /\ run' = [run EXCEPT ![w].stored_title = st,
                                      ![w].pc = IF RenameDetected(st, run[w].chat_title)
                                                  THEN "delete_album_cache"
                                                  ELSE "set_chat_title"]
    /\ UNCHANGED <<db_vars, albums, media_items, config, deliveries, store_faults>>

\* line 65: await db.delete_album_cache(stored_title)
DeleteAlbumCache(w) ==
    /\ run[w].pc = "delete_album_cache"
    /\ \E fails \in StoreCallFails :
         IF fails
           THEN /\ run' = Raise(w)
                /\ UNCHANGED album_cache
           ELSE /\ album_cache' = delete_album_cache(album_cache, run[w].stored_title)
                /\ run' = Goto(w, "set_chat_title")
    /\ UNCHANGED <<processed_messages, chat_titles, albums, media_items, config, deliveries, store_faults>>

\* line 66: await db.set_chat_title(chat_id, chat_title)
SetChatTitle(w) ==
    /\ run[w].pc = "set_chat_title"
    /\ \E fails \in StoreCallFails \cup
                     {InsertRaises(SetOnConflict,
                                   \E r \in chat_titles : r[1] = run[w].ev.chat_id)} :
         IF fails
           THEN /\ run' = Raise(w)
                /\ UNCHANGED chat_titles
           ELSE /\ chat_titles' = set_chat_title(chat_titles, run[w].ev.chat_id, run[w].chat_title)
                /\ run' = Goto(w, "download_media")
    /\ UNCHANGED <<processed_messages, album_cache, albums, media_items, config, deliveries, store_faults>>

\* lines 68-87: content = await download_media(context.bot, message)
DownloadMedia(w) ==
    /\ run[w].pc = "download_media"
    /\ \E res \in DownloadResults :
         LET logged == [run EXCEPT ![w].calls = Append(run[w].calls, CallDownload(res))] IN
         CASE res = "FileTooLargeError" ->
                 run' = [logged EXCEPT ![w].pc = "done", ![w].exit = "too_large",
                                       ![w].at = "download_media"]
           [] res = "Exception" ->
                 run' = [logged EXCEPT ![w].pc = "done", ![w].exit = "download_failed",
                                       ![w].at = "download_media"]
           [] res = "None" ->
                 run' = [logged EXCEPT ![w].pc = "done", ![w].exit = "no_media",
                                       ![w].at = "download_media"]
           [] res = "content" ->
                 \E c \in Contents :
                     run' = [logged EXCEPT ![w].pc = "get_album_id", ![w].content = c]
    /\ UNCHANGED <<db_vars, albums, media_items, config, deliveries, store_faults>>

\* line 90-91: album_id = await db.get_album_id(chat_title), inside the try
GetAlbumId(w) ==
    /\ run[w].pc = "get_album_id"
    /\ \E fails \in StoreCallFails :
         IF fails
           THEN /\ run' = Return(w, "upload_failed")
           ELSE LET a == get_album_id(album_cache, run[w].chat_title) IN
                /\ run' = [run EXCEPT ![w].album_id = a,
                                      ![w].pc = IF CacheMiss(a) THEN "get_or_create_album"
                                                ELSE "upload_media"]
    /\ UNCHANGED <<db_vars, albums, media_items, config, deliveries, store_faults>>

\* line 92: album_id = await google_photos.get_or_create_album(chat_title)
GetOrCreateAlbumCall(w) ==
    /\ run[w].pc = "get_or_create_album"
    /\ \E res \in RemoteResults :
         LET got == GetOrCreateAlbum(albums, run[w].chat_title)
             logged == [run EXCEPT ![w].calls =
                           Append(run[w].calls,
                                  CallGetOrCreate(run[w].chat_title,
                                                  IF res = "ok" THEN got[1] ELSE NoAlbum, res))]
         IN  CASE res = "ok" ->
                     /\ albums' = got[2]
                     /\ run' = [logged EXCEPT ![w].album_id = got[1], ![w].pc = "set_album_id"]
               [] res = "GooglePhotosError" ->
                     /\ run' = [logged EXCEPT ![w].pc = "done", ![w].exit = "gp_error",
                                              ![w].at = "get_or_create_album"]
                     /\ UNCHANGED albums
               [] res = "Exception" ->
                     /\ run' = [logged EXCEPT ![w].pc = "done", ![w].exit = "upload_failed",
                                              ![w].at = "get_or_create_album"]
                     /\ UNCHANGED albums
    /\ UNCHANGED <<db_vars, media_items, config, deliveries, store_faults>>

\* line 93: await db.set_album_id(chat_title, album_id), inside the try
SetAlbumId(w) ==
    /\ run[w].pc = "set_album_id"
    /\ \E fails \in StoreCallFails \cup
                     {InsertRaises(SetOnConflict,
                                   \E r \in album_cache : r[1] = run[w].chat_title)} :
         IF fails
           THEN /\ run' = Return(w, "upload_failed")
                /\ UNCHANGED album_cache
           ELSE /\ album_cache' = set_album_id(album_cache, run[w].chat_title, run[w].album_id)
                /\ run' = Goto(w, "upload_media")
    /\ UNCHANGED <<processed_messages, chat_titles, albums, media_items, config, deliveries, store_faults>>

\* fault: "except GooglePhotosError" without its return, falling through to
\* mark_processed
AfterUploadFallThrough(res) ==
    CASE res = "ok" -> [pc |-> "mark_processed", exit |-> "-"]
      [] res = "GooglePhotosError" -> [pc |-> "mark_processed", exit |-> "-"]
      [] res = "Exception" -> [pc |-> "done", exit |-> "upload_failed"]

\* lines 95-112: where the run goes after upload_media returned or raised:
\* on to mark_processed, or out through one of the two except clauses
AfterUpload(res) ==
    CASE res = "ok" -> [pc |-> "mark_processed", exit |-> "-"]
      [] res = "GooglePhotosError" -> [pc |-> "done", exit |-> "gp_error"]
      [] res = "Exception" -> [pc |-> "done", exit |-> "upload_failed"]

\* lines 95-112: await google_photos.upload_media(content.data, content.filename,
\* content.mime_type, album_id)
UploadMedia(w) ==
    /\ run[w].pc = "upload_media"
    /\ \E res \in RemoteResults :
         /\ run' = [run EXCEPT
                      ![w].calls = Append(run[w].calls,
                                          CallUpload(run[w].content, run[w].album_id, res)),
                      ![w].pc = AfterUpload(res).pc,
                      ![w].exit = AfterUpload(res).exit,
                      ![w].at = IF AfterUpload(res).pc = "done" THEN "upload_media" ELSE "-"]
         /\ media_items' =
                IF res = "ok"
                  THEN Append(media_items,
                              [chat_id |-> run[w].ev.chat_id,
                               message_id |-> run[w].ev.message_id,
                               album_id |-> run[w].album_id,
                               content |-> run[w].content])
                  ELSE media_items
    /\ UNCHANGED <<db_vars, albums, config, deliveries, store_faults>>

\* line 114: await db.mark_processed(chat_id, message_id), after the try
MarkProcessed(w) ==
    /\ run[w].pc = "mark_processed"
    /\ \E fails \in StoreCallFails \cup
                     {InsertRaises(MarkProcessedOnConflict,
                                   <<run[w].ev.chat_id, run[w].ev.message_id>>
                                       \in processed_messages)} :
         IF fails
           THEN /\ run' = Raise(w)
                /\ UNCHANGED processed_messages
           ELSE /\ processed_messages' =
                     mark_processed(processed_messages, run[w].ev.chat_id, run[w].ev.message_id)
                /\ run' = Return(w, "synced")
    /\ UNCHANGED <<album_cache, chat_titles, albums, media_items, config, deliveries, store_faults>>

\* lines 50-114: the steps of a run after its event was delivered
Steps(w) ==
    \/ IsProcessed(w)
    \/ GetChatTitle(w)
    \/ DeleteAlbumCache(w)
    \/ SetChatTitle(w)
    \/ DownloadMedia(w)
    \/ GetAlbumId(w)
    \/ GetOrCreateAlbumCall(w)
    \/ SetAlbumId(w)
    \/ UploadMedia(w)
    \/ MarkProcessed(w)

handle_media(w) == Deliver(w) \/ Steps(w)

\* no execution of handle_media exists (specification SpecRetry)
HmIdle ==
    /\ processed_messages = {}
    /\ album_cache = {}
    /\ chat_titles = {}
    /\ albums = <<>>
    /\ media_items = <<>>
    /\ config = [allowed_group_ids |-> {}]
    /\ run = [w \in Workers |-> IdleRun]
    /\ deliveries = 0
    /\ store_faults = FALSE

(***************************************************************************)
(* bot/database.py: the methods of Database called in any order            *)
(***************************************************************************)
StoreTitles == {<<"A">>, <<"B">>}
AlbumIds == {1, 2}

NoDbOp == [op |-> "-", chat_id |-> 0, message_id |-> 0, title |-> None,
           album_id |-> NoAlbum, pre |-> EmptyStore, raised |-> FALSE,
           found |-> FALSE, got_id |-> NoAlbum, got_title |-> None]
DbCall(op) == [NoDbOp EXCEPT !.op = op, !.pre = Store]

DbIsProcessed ==
    /\ \E g \in Groups, m \in MessageIds :
         db_op' = [DbCall("is_processed") EXCEPT
                     !.chat_id = g, !.message_id = m,
                     !.found = is_processed(processed_messages, g, m)]
    /\ UNCHANGED db_vars

DbMarkProcessed ==
    /\ \E g \in Groups, m \in MessageIds :
         LET fails == InsertRaises(MarkProcessedOnConflict, <<g, m>> \in processed_messages)
         IN /\ db_op' = [DbCall("mark_processed") EXCEPT
                           !.chat_id = g, !.message_id = m, !.raised = fails]
            /\ processed_messages' =
                 IF fails THEN processed_messages
                 ELSE mark_processed(processed_messages, g, m)
    /\ UNCHANGED <<album_cache, chat_titles>>

DbGetAlbumId ==
    /\ \E t \in StoreTitles :
         db_op' = [DbCall("get_album_id") EXCEPT
                     !.title = t, !.got_id = get_album_id(album_cache, t)]
    /\ UNCHANGED db_vars

DbSetAlbumId ==
    /\ \E t \in StoreTitles, a \in AlbumIds :
         LET fails == InsertRaises(SetOnConflict, \E r \in album_cache : r[1] = t)
         IN /\ db_op' = [DbCall("set_album_id") EXCEPT
                           !.title = t, !.album_id = a, !.raised = fails]
            /\ album_cache' = IF fails THEN album_cache ELSE set_album_id(album_cache, t, a)
    /\ UNCHANGED <<processed_messages, chat_titles>>

DbDeleteAlbumCache ==
    /\ \E t \in StoreTitles :
         /\ db_op' = [DbCall("delete_album_cache") EXCEPT !.title = t]
         /\ album_cache' = delete_album_cache(album_cache, t)
    /\ UNCHANGED <<processed_messages, chat_titles>>

DbGetChatTitle ==
    /\ \E g \in Groups :
         db_op' = [DbCall("get_chat_title") EXCEPT
                     !.chat_id = g, !.got_title = get_chat_title(chat_titles, g)]
    /\ UNCHANGED db_vars

DbSetChatTitle ==
    /\ \E g \in Groups, t \in StoreTitles :
         LET fails == InsertRaises(SetOnConflict, \E r \in chat_titles : r[1] = g)
         IN /\ db_op' = [DbCall("set_chat_title") EXCEPT
                           !.chat_id = g, !.title = t, !.raised = fails]
            /\ chat_titles' = IF fails THEN chat_titles ELSE set_chat_title(chat_titles, g, t)
    /\ UNCHANGED <<processed_messages, album_cache>>

Database ==
    \/ DbIsProcessed
    \/ DbMarkProcessed
    \/ DbGetAlbumId
    \/ DbSetAlbumId
    \/ DbDeleteAlbumCache
    \/ DbGetChatTitle
    \/ DbSetChatTitle

(***************************************************************************)
(* bot/google_photos.py: get_album_product_url over _request_with_retry    *)
(***************************************************************************)
\* resp.json() of GET /albums/{album_id}: a dict that may hold productUrl
ProductPayloads == {{}, {<<"productUrl", <<>>>>}, {<<"productUrl", <<"u", "r", "l">>>>}}

\* fault: the URL is returned unchecked
UrlMissingNever(url) == FALSE

\* "if not url"
UrlMissing(url) == ~ Truthy(url)

PuIdle == [pc |-> "idle", album_id |-> NoAlbum, data |-> {}, result |-> None,
           exc |-> NoExc]

PuInit == \E a \in AlbumIds : pu = [PuIdle EXCEPT !.pc = "request", !.album_id = a]

\* the call of _request_with_retry made by get_album_product_url: no extra
\* headers, the policy of the module
PuRqInit ==
    /\ rq_pc = "for"
    /\ max_retries = MAX_RETRIES
    /\ attempt = 0
    /\ delay = InitialDelay
    /\ last_exc = NoExc
    /\ rq_result = [kind |-> "running", status |-> 0, exc |-> NoExc]
    /\ rq_log = <<>>
    /\ credentials \in [token : {NoToken, 1}]
    /\ extra_headers = {}
    /\ token = NoToken
    /\ rq_sent = <<>>

\* resp = await self._request_with_retry(client, "GET", ...): the steps of
\* the wrapper
PuRequest ==
    /\ pu.pc = "request"
    /\ RqNext
    /\ UNCHANGED pu

\* the wrapper raised: the exception leaves get_album_product_url
PuRaise ==
    /\ pu.pc = "request"
    /\ rq_pc = "raised"
    /\ pu' = [pu EXCEPT !.pc = "raised", !.exc = rq_result.exc]
    /\ UNCHANGED rq_vars

\* data = resp.json(); url = data.get("productUrl"); if not url: raise
PuResponse ==
    /\ pu.pc = "request"
    /\ rq_pc = "returned"
    /\ \E data \in ProductPayloads :
         LET url == DictGetOr(data, "productUrl", None)
         IN IF UrlMissing(url)
              THEN pu' = [pu EXCEPT !.pc = "raised", !.data = data,
                                    !.exc = GooglePhotosError(0)]
              ELSE pu' = [pu EXCEPT !.pc = "returned", !.data = data, !.result = url]
    /\ UNCHANGED rq_vars

get_album_product_url == PuRequest \/ PuRaise \/ PuResponse

(***************************************************************************)
(* The link command: the read-only query for the album URL of a group      *)
(***************************************************************************)
\* the album caches the query can meet
AlbumCaches ==
    {ac \in SUBSET (StoreTitles \X AlbumIds) :
        \A r1, r2 \in ac : r1[1] = r2[1] => r1 = r2}

\* the web URL the remote service reports for an album
ProductUrl(album_id) == <<"https", album_id>>
NoReplyUrl == <<"-", 0>>

CallProductUrl(album_id, res) == [fn |-> "get_album_product_url", album_id |-> album_id,
                                  res |-> res]
Reply(kind, url) == [kind |-> kind, url |-> url]

LkIdle == [pc |-> "idle", exit |-> "-", ev |-> NoEvent, title |-> None,
           album_id |-> NoAlbum, calls |-> <<>>, replies |-> <<>>, pre |-> EmptyStore]

LkInit == \E e \in Events : lk = [LkIdle EXCEPT !.pc = "filter", !.ev = e, !.pre = Store]

\* the conversation filter and the effective title
LkFilter ==
    /\ lk.pc = "filter"
    /\ lk' = IF ~ IsGroupChat(lk.ev.type)
               THEN [lk EXCEPT !.pc = "done", !.exit = "not_group"]
             ELSE IF NotAllowed(config.allowed_group_ids, lk.ev.chat_id)
               THEN [lk EXCEPT !.pc = "done", !.exit = "not_allowed"]
             ELSE [lk EXCEPT !.pc = "get_album_id",
                             !.title = EffectiveTitle(lk.ev.title, lk.ev.chat_id)]

\* the cache lookup; without an entry the query answers "No album found"
LkGetAlbumId ==
    /\ lk.pc = "get_album_id"
    /\ LET a == get_album_id(album_cache, lk.title)
       IN lk' = IF CacheMiss(a)
                  THEN [lk EXCEPT !.pc = "done", !.exit = "no_album",
                                  !.replies = Append(@, Reply("No album found", NoReplyUrl))]
                  ELSE [lk EXCEPT !.pc = "get_album_product_url", !.album_id = a]

\* the remote call; a remote-service error is answered "Could not retrieve"
LkGetAlbumProductUrl ==
    /\ lk.pc = "get_album_product_url"
    /\ \E res \in {"ok", "GooglePhotosError"} :
         LET called == [lk EXCEPT !.calls = Append(@, CallProductUrl(lk.album_id, res))]
         IN lk' = IF res = "ok"
                    THEN [called EXCEPT !.pc = "done", !.exit = "url",
                                        !.replies = Append(@, Reply("url",
                                                                   ProductUrl(lk.album_id)))]
                    ELSE [called EXCEPT !.pc = "done", !.exit = "could_not_retrieve",
                                        !.replies = Append(@, Reply("Could not retrieve",
                                                                   NoReplyUrl))]

handle_link_command == LkFilter \/ LkGetAlbumId \/ LkGetAlbumProductUrl

(***************************************************************************)
(* Specifications                                                          *)
(***************************************************************************)
\* handle_media, events handled one at a time
ClIdle == goc = GocIdle /\ up = UpIdle /\ dl = DlIdle
AuxIdle == db_op = NoDbOp /\ pu = PuIdle /\ lk = LkIdle
Init == HmInit /\ RqIdle /\ ClIdle /\ AuxIdle
Next == (\E w \in SeqWorkers : handle_media(w)) /\ UNCHANGED <<rq_vars, cl_vars, aux_vars>>
Spec == Init /\ [][Next]_vars

\* handle_media, events handled one at a time, store calls may raise
InitFaulty ==
    /\ RqIdle
    /\ ClIdle
    /\ AuxIdle
    /\ processed_messages = {}
    /\ album_cache = {}
    /\ chat_titles = {}
    /\ albums = <<>>
    /\ media_items = <<>>
    /\ config \in [allowed_group_ids : AllowLists]
    /\ run = [w \in Workers |-> IdleRun]
    /\ deliveries = 0
    /\ store_faults = TRUE
SpecFaulty == InitFaulty /\ [][Next]_vars

\* one call of _request_with_retry
InitRetry == HmIdle /\ RqInit /\ ClIdle /\ AuxIdle
NextRetry == RqNext /\ UNCHANGED <<hm_vars, cl_vars, aux_vars>>
SpecRetry == InitRetry /\ [][NextRetry]_vars

\* the store and the handler at rest, the remote service with some albums
HmIdleWithAlbums ==
    /\ processed_messages = {}
    /\ album_cache = {}
    /\ chat_titles = {}
    /\ albums \in Listings
    /\ media_items = <<>>
    /\ config = [allowed_group_ids |-> {}]
    /\ run = [w \in Workers |-> IdleRun]
    /\ deliveries = 0
    /\ store_faults = FALSE

\* one call of get_or_create_album
InitAlbum == HmIdleWithAlbums /\ RqIdle /\ GocInit /\ up = UpIdle /\ dl = DlIdle /\ AuxIdle
NextAlbum ==
    /\ get_or_create_album
    /\ UNCHANGED <<rq_vars, db_vars, media_items, config, run, deliveries, store_faults, up, dl,
                   aux_vars>>
SpecAlbum == InitAlbum /\ [][NextAlbum]_vars

\* one call of upload_media
InitUpload == HmIdle /\ RqIdle /\ UpInit /\ goc = GocIdle /\ dl = DlIdle /\ AuxIdle
NextUpload == upload_media /\ UNCHANGED <<rq_vars, hm_vars, goc, dl, aux_vars>>
SpecUpload == InitUpload /\ [][NextUpload]_vars

\* one call of download_media
InitDownload == HmIdle /\ RqIdle /\ DlInit /\ goc = GocIdle /\ up = UpIdle /\ AuxIdle
NextDownload == download_media /\ UNCHANGED <<rq_vars, hm_vars, goc, up, aux_vars>>
SpecDownload == InitDownload /\ [][NextDownload]_vars

\* one call of get_album_product_url
InitProductUrl == HmIdle /\ PuRqInit /\ ClIdle /\ PuInit /\ db_op = NoDbOp /\ lk = LkIdle
NextProductUrl == get_album_product_url /\ UNCHANGED <<hm_vars, cl_vars, db_op, lk>>
SpecProductUrl == InitProductUrl /\ [][NextProductUrl]_vars

\* one handling of the link command, on a store that holds some albums
InitLink ==
    /\ RqIdle
    /\ ClIdle
    /\ db_op = NoDbOp
    /\ pu = PuIdle
    /\ processed_messages = {}
    /\ album_cache \in AlbumCaches
    /\ chat_titles = {}
    /\ albums = <<>>
    /\ media_items = <<>>
    /\ config \in [allowed_group_ids : AllowLists]
    /\ run = [w \in Workers |-> IdleRun]
    /\ deliveries = 0
    /\ store_faults = FALSE
    /\ LkInit
NextLink == handle_link_command /\ UNCHANGED <<rq_vars, hm_vars, cl_vars, db_op, pu>>
SpecLink == InitLink /\ [][NextLink]_vars

\* the methods of Database, called in any order on an empty store
InitStore == HmIdle /\ RqIdle /\ ClIdle /\ AuxIdle
NextStore ==
    /\ Database
    /\ UNCHANGED <<rq_vars, albums, media_items, config, run, deliveries, store_faults,
                   cl_vars, pu, lk>>
SpecStore == InitStore /\ [][NextStore]_vars

(***************************************************************************)
(* Properties of handle_media                                              *)
(***************************************************************************)
ChatId(w) == run[w].ev.chat_id
Key(w) == <<run[w].ev.chat_id, run[w].ev.message_id>>
Done(w) == run[w].pc = "done"
\* the title the group had in the store when the event arrived, and the
\* event's effective title
OldTitle(w) == get_chat_title(run[w].pre.chat_titles, ChatId(w))
NewTitle(w) == EffectiveTitle(run[w].ev.title, ChatId(w))
\* number of times upload_media has returned successfully for (g, m)
UploadsOf(g, m) ==
    Cardinality({i \in DOMAIN media_items :
                    media_items[i].chat_id = g /\ media_items[i].message_id = m})
CallsTo(w, fn) == SelectSeq(run[w].calls, LAMBDA c : c.fn = fn)
\* the returns of handle_media after a failed or empty fetch, a failed album
\* resolution or a failed upload
AbortExits == {"too_large", "download_failed", "no_media", "gp_error", "upload_failed"}

\* C1: with events handled one at a time and store calls succeeding,
\* upload_media returns successfully at most once per (group_id, message_id),
\* and a delivery of an event that is already marked processed ends at the
\* is_processed check (or before it), having fetched and uploaded nothing.
C1_UploadAtMostOnce ==
    /\ \A g \in Groups, m \in MessageIds : UploadsOf(g, m) <= 1
    /\ \A w \in Workers :
         (run[w].pc # "idle" /\ Key(w) \in run[w].pre.processed_messages)
           => /\ run[w].calls = <<>>
              /\ run[w].pc \in {"is_processed", "done"}
              /\ Done(w) => run[w].exit =
                              IF IsGroupChat(run[w].ev.type) THEN "already_processed"
                              ELSE "not_group"

\* a redelivery of an uploaded and marked event has returned at the dedup check
C1_Witness ==
    \E w \in Workers :
        /\ Done(w)
        /\ run[w].exit = "already_processed"
        /\ UploadsOf(ChatId(w), run[w].ev.message_id) = 1
        /\ deliveries = MaxDeliveries

\* C2: a processed marker for (g, m) exists only if upload_media has returned
\* successfully for (g, m), and a run that ends anywhere but after
\* mark_processed leaves the set of markers as it found it.
C2_MarkedOnlyAfterUpload ==
    /\ \A r \in processed_messages : UploadsOf(r[1], r[2]) >= 1
    /\ \A w \in Workers :
         (Done(w) /\ run[w].exit # "synced")
           => processed_messages = run[w].pre.processed_messages

\* an upload failed in a store that already holds a marker
C2_Witness ==
    \E w \in Workers :
        /\ Done(w)
        /\ run[w].exit = "gp_error"
        /\ run[w].at = "upload_media"
        /\ processed_messages # {}
        /\ Key(w) \notin processed_messages

\* C3: handle_media never propagates an exception: whichever store call, fetch
\* or remote call fails, the run ends by returning.
C3_NeverPropagates ==
    \A w \in Workers : Done(w) => run[w].exit # "raised"

\* the rows by which the store differs from the store the run started with
CacheAdded(w) == album_cache \ run[w].pre.album_cache
CacheRemoved(w) == run[w].pre.album_cache \ album_cache
TitlesChanged(w) ==
    (chat_titles \ run[w].pre.chat_titles) \cup (run[w].pre.chat_titles \ chat_titles)

\* C4 as stated: an aborted run changes at most the group's stored title and
\* removes at most the album-cache entry of the group's old title; it adds no
\* album-cache entry and no processed marker.
C4_AbortAddsNoCacheEntry ==
    \A w \in Workers :
        (Done(w) /\ run[w].exit \in AbortExits)
          => /\ processed_messages = run[w].pre.processed_messages
             /\ \A r \in TitlesChanged(w) : r[1] = ChatId(w)
             /\ \A r \in CacheRemoved(w) : r[1] = OldTitle(w)
             /\ CacheAdded(w) = {}

\* C4, amended: an aborted run changes at most the group's stored title,
\* removes at most the album-cache entry of the group's old title and adds at
\* most one album-cache entry: the one for the effective title, holding the id
\* get_or_create_album returned to this run, and only when the run aborts at
\* upload_media; it adds no processed marker.
C4_AbortFrame ==
    \A w \in Workers :
        (Done(w) /\ run[w].exit \in AbortExits)
          => /\ processed_messages = run[w].pre.processed_messages
             /\ \A r \in TitlesChanged(w) : r[1] = ChatId(w)
             /\ \A r \in CacheRemoved(w) : r[1] = OldTitle(w) /\ OldTitle(w) # NewTitle(w)
             /\ \A r \in CacheAdded(w) :
                  /\ run[w].at = "upload_media"
                  /\ Len(CallsTo(w, "get_or_create_album")) = 1
                  /\ r = <<NewTitle(w), CallsTo(w, "get_or_create_album")[1].album_id>>
                  /\ CallsTo(w, "get_or_create_album")[1].res = "ok"

\* a renamed group's run aborted at upload: old entry removed, new entry added
C4_Witness ==
    \E w \in Workers :
        /\ Done(w)
        /\ run[w].exit \in AbortExits
        /\ run[w].at = "upload_media"
        /\ CacheRemoved(w) # {}
        /\ CacheAdded(w) # {}

\* a title is stored for the group and differs from the event's effective title
Renamed(w) == OldTitle(w) # None /\ OldTitle(w) # NewTitle(w)

\* C5 as stated: after a successful run on a renamed group the old title's
\* cache entry is absent, the stored title is the new one, get_or_create_album
\* was invoked exactly once, with the new title, and the cache holds the
\* returned id under the new title.
C5_RenameAlwaysResolves ==
    \A w \in Workers :
        (Done(w) /\ run[w].exit = "synced" /\ Renamed(w))
          => /\ get_album_id(album_cache, OldTitle(w)) = NoAlbum
             /\ get_chat_title(chat_titles, ChatId(w)) = NewTitle(w)
             /\ Len(CallsTo(w, "get_or_create_album")) = 1
             /\ CallsTo(w, "get_or_create_album")[1].title = NewTitle(w)
             /\ get_album_id(album_cache, NewTitle(w)) =
                    CallsTo(w, "get_or_create_album")[1].album_id

\* C5, amended: after a successful run on a renamed group the old title's
\* cache entry is absent and the stored title is the new one; if the cache held
\* no entry for the new title when the event arrived, get_or_create_album was
\* invoked exactly once, with the new title, and the cache holds the returned
\* id under the new title; if it held one, get_or_create_album was not invoked
\* and that entry is unchanged.
C5_Rename ==
    \A w \in Workers :
        (Done(w) /\ run[w].exit = "synced" /\ Renamed(w))
          => /\ get_album_id(album_cache, OldTitle(w)) = NoAlbum
             /\ get_chat_title(chat_titles, ChatId(w)) = NewTitle(w)
             /\ IF get_album_id(run[w].pre.album_cache, NewTitle(w)) = NoAlbum
                  THEN /\ Len(CallsTo(w, "get_or_create_album")) = 1
                       /\ CallsTo(w, "get_or_create_album")[1].title = NewTitle(w)
                       /\ get_album_id(album_cache, NewTitle(w)) =
                              CallsTo(w, "get_or_create_album")[1].album_id
                       /\ get_album_id(album_cache, NewTitle(w)) # NoAlbum
                  ELSE /\ Len(CallsTo(w, "get_or_create_album")) = 0
                       /\ get_album_id(album_cache, NewTitle(w)) =
                              get_album_id(run[w].pre.album_cache, NewTitle(w))

\* a successful run on a renamed group whose old title had a cache entry
C5_Witness ==
    \E w \in Workers :
        /\ Done(w)
        /\ run[w].exit = "synced"
        /\ Renamed(w)
        /\ get_album_id(run[w].pre.album_cache, OldTitle(w)) # NoAlbum
        /\ Len(CallsTo(w, "get_or_create_album")) = 1

\* C6: when handle_media returns for an event that passed the group,
\* allow-list and dedup checks, the stored title of the group is the event's
\* effective title, whatever happened at fetch, album resolution and upload.
C6_TitleStored ==
    \A w \in Workers :
        (Done(w) /\ run[w].exit \in AbortExits \cup {"synced"})
          => get_chat_title(chat_titles, ChatId(w)) = NewTitle(w)

\* a renamed group's run whose fetch failed
C6_Witness ==
    \E w \in Workers :
        /\ Done(w)
        /\ run[w].exit = "download_failed"
        /\ Renamed(w)
        /\ get_chat_title(chat_titles, ChatId(w)) = NewTitle(w)

(***************************************************************************)
(* Properties of _request_with_retry                                       *)
(***************************************************************************)
\* the retryable statuses and the backoff schedule as the specification
\* states them
StatedRetryable == {429, 500, 502, 503, 504}
StatedSchedule == <<30, 60, 120>>
RetryableFailure(e) ==
    e.kind = "transport" \/ (e.kind = "response" /\ e.status \in StatedRetryable)
Is2xx(e) == e.kind = "response" /\ e.status >= 200 /\ e.status <= 299
\* the first k requests of the call all failed retryably
FailuresBefore(k) == \A i \in 1..k : RetryableFailure(Requests[i])

\* C7: with retry count N, k < N retryable failures followed by a 2xx response
\* make the call return that response after exactly k+1 requests; N retryable
\* failures make it raise after exactly N requests, with no wait or request
\* after the last one; no call sends more than N requests.
C7_AttemptCount ==
    /\ Sent <= max_retries
    /\ \A k \in 0..(max_retries - 1) :
         (Sent >= k + 1 /\ FailuresBefore(k) /\ Is2xx(Requests[k + 1]))
           => /\ rq_pc = "returned"
              /\ rq_result.kind = "returned"
              /\ rq_result.status = Requests[k + 1].status
              /\ Sent = k + 1
    /\ (Sent = max_retries /\ FailuresBefore(max_retries))
           => /\ rq_pc \in {"for", "raised"}
              /\ rq_log # <<>> => rq_log[Len(rq_log)].op = "request"
              /\ rq_pc = "raised" => rq_result.exc = last_exc \/ max_retries = 0
    /\ (rq_pc = "raised" /\ rq_result.exc.type \in {"httpx.HTTPError", "GooglePhotosError"})
           => Sent = max_retries

\* [503, 503, 200]: returned after exactly 3 requests
C7_Witness ==
    /\ rq_pc = "returned"
    /\ Sent = 3
    /\ Requests[1].status = 503
    /\ Requests[2].status = 503
    /\ Requests[3].status = 200

\* C8: a request is followed by another one only if it failed by a transport
\* failure or a status in {429, 500, 502, 503, 504}; a response with any other
\* non-2xx status is the last event of the call, which raises for it.
C8_OnlyRetryableRetried ==
    /\ \A i \in 1..(Sent - 1) : RetryableFailure(Requests[i])
    /\ \A i \in DOMAIN rq_log :
         (/\ rq_log[i].op = "request"
          /\ rq_log[i].kind = "response"
          /\ rq_log[i].status \notin StatedRetryable
          /\ ~ Is2xx(rq_log[i]))
           => /\ i = Len(rq_log)
              /\ rq_pc = "raised"
              /\ rq_result.exc = HTTPStatusError(rq_log[i].status)

\* a 404 on the second attempt ended the call
C8_Witness ==
    /\ rq_pc = "raised"
    /\ Sent = 2
    /\ Requests[1].status = 503
    /\ Requests[2].status = 404

\* C9: with the default policy the waits before attempts 2, 3 and 4 are 30 s,
\* 60 s and 120 s.
C9_Schedule ==
    max_retries = MAX_RETRIES
      => \A i \in 1..Len(Sleeps) : Sleeps[i].delay = StatedSchedule[i]

\* C10: every wait of the call is at least 30 s and at most 120 s.
C10_WaitBounds ==
    \A i \in DOMAIN rq_log :
        rq_log[i].op = "sleep" => rq_log[i].delay >= 30 /\ rq_log[i].delay <= 120

\* the first retry after a 429 and a later retry after a transport failure
C10_Witness ==
    /\ Len(Sleeps) >= 2
    /\ Requests[1].status = 429
    /\ Requests[2].kind = "transport"

\* the call raised because all max_retries attempts failed retryably
Exhausted ==
    /\ rq_pc = "raised"
    /\ max_retries > 0
    /\ Sent = max_retries
    /\ FailuresBefore(max_retries)
\* the attempts of the call that obtained an HTTP response
ResponseAttempts == {i \in 1..Sent : Requests[i].kind = "response"}
LastResponseAttempt == CHOOSE i \in ResponseAttempts : \A j \in ResponseAttempts : j <= i

\* C11: when all attempts fail, the raised error is a GooglePhotosError with
\* the status of the last HTTP response if any attempt obtained a response;
\* the transport error is raised only if no attempt obtained one.
C11_LastResponseRaised ==
    Exhausted =>
        IF ResponseAttempts # {}
          THEN rq_result.exc = [type |-> "GooglePhotosError",
                                status |-> Requests[LastResponseAttempt].status]
          ELSE rq_result.exc.type = "httpx.HTTPError"

\* number of successful credential acquisitions of the call
TokensAcquired == Len(SelectSeq(rq_log, LAMBDA e : e.op = "token" /\ e.kind = "ok"))

\* C12: every request is sent right after a successful credential acquisition
\* of its own attempt, so the acquisitions of a call number as many as its
\* requests (one more while the request of the current attempt is pending).
C12_TokenPerAttempt ==
    /\ \A i \in DOMAIN rq_log :
         rq_log[i].op = "request"
           => i > 1 /\ rq_log[i - 1].op = "token" /\ rq_log[i - 1].kind = "ok"
    /\ TokensAcquired = Sent + (IF rq_pc = "request" THEN 1 ELSE 0)

\* 429 then 200: two requests, two acquisitions
C12_Witness ==
    /\ rq_pc = "returned"
    /\ Sent = 2
    /\ Requests[1].status = 429
    /\ TokensAcquired = 2

\* C13: every request carries all caller-supplied headers (other than an
\* Authorization entry), and its Authorization header is 'Bearer <token
\* acquired for this attempt>', also when the caller supplied an
\* Authorization entry.
C13_AuthorizationFresh ==
    \A i \in DOMAIN rq_sent :
        /\ \A r \in extra_headers : r[1] # "Authorization" => r \in rq_sent[i].headers
        /\ <<"Authorization", <<"Bearer", rq_sent[i].token>>>> \in rq_sent[i].headers

(***************************************************************************)
(* Properties of get_or_create_album                                       *)
(***************************************************************************)
\* the listing the call started with holds an album of the requested title
TitleListed == \E i \in 1..Len(goc.listing) : goc.listing[i] = goc.title
GocRequests(op) == SelectSeq(goc.log, LAMBDA e : e.op = op)

\* C14: get_or_create_album returns the id of an album of exactly the
\* requested title, creating nothing, whenever the listing holds one; a create
\* request is sent only after every page of the listing, followed through the
\* page tokens, was read without a match, and the call then returns the id of
\* the created album.
C14_FindThenCreate ==
    /\ goc.pc = "returned" =>
         IF TitleListed
           THEN /\ goc.result \in 1..Len(goc.listing)
                /\ goc.listing[goc.result] = goc.title
                /\ GocRequests("create") = <<>>
                /\ albums = goc.listing
           ELSE /\ Len(GocRequests("create")) = 1
                /\ albums = Append(goc.listing, goc.title)
                /\ goc.result = Len(albums)
    /\ \A i \in DOMAIN goc.log :
         goc.log[i].op = "create"
           => /\ ~ TitleListed
              /\ i = Len(goc.log)
              /\ goc.read = Len(goc.listing)
              /\ i > 1
              /\ \A j \in 1..(i - 1) : goc.log[j].op = "list" /\ goc.log[j].res = "ok"
              /\ goc.log[i - 1].next = 0
    /\ \A i \in DOMAIN goc.log :
         goc.log[i].op = "list"
           => IF i = 1 THEN goc.log[i].at = 0
              ELSE goc.log[i].at = goc.log[i - 1].next /\ goc.log[i].at # 0

\* no match on any of three pages, then the album is created
C14_Witness ==
    /\ goc.pc = "returned"
    /\ Len(GocRequests("list")) = 3
    /\ Len(GocRequests("create")) = 1
    /\ goc.result = 4

(***************************************************************************)
(* Properties of upload_media                                              *)
(***************************************************************************)
\* C15: the finalize request (batchCreate) is sent only after the raw upload
\* returned a token, and carries exactly that token and the given album id;
\* when the raw upload fails no finalize request is sent.
C15_FinalizeAfterUpload ==
    /\ \A i \in DOMAIN up.log :
         up.log[i].op = "batchCreate"
           => /\ i = 2
              /\ up.log[1].op = "uploads"
              /\ up.log[1].res = "ok"
              /\ up.log[1].content = up.file_bytes
              /\ up.log[i].body.uploadToken = up.upload_token
              /\ up.upload_token = Strip(up.text)
              /\ up.log[i].body.albumId = up.album_id
              /\ up.album_id # NoAlbum
    /\ (up.log # <<>> /\ up.log[1].res = "raise")
         => up.pc = "raised" /\ Len(up.log) = 1

\* a token sent with surrounding whitespace, finalized without it
C15_Witness ==
    /\ up.pc = "returned"
    /\ up.text = <<" ", "t", "2", "\n">>
    /\ Len(up.log) = 2
    /\ up.log[2].body.uploadToken = <<"t", "2">>
    /\ up.log[2].body.albumId = 2

\* the finalize request was answered with 2xx
Finalized2xx == Len(up.log) = 2 /\ up.log[2].res = "ok"
\* its list of results, and the nonzero status codes of the first result
FinalizeResults ==
    IF \E r \in up.payload : r[1] = "newMediaItemResults"
      THEN (CHOOSE r \in up.payload : r[1] = "newMediaItemResults")[2]
      ELSE <<>>
NonZeroCodes ==
    {c[2] : c \in {c \in UNION {st[2] : st \in {st \in FinalizeResults[1] : st[1] = "status"}} :
                      c[1] = "code" /\ c[2] # 0}}

\* C16: after a 2xx finalize response upload_media raises when the list of
\* results is empty or the item carries a non-zero status code, and returns
\* normally only when the item has no status code or code 0.
C16_ItemStatusChecked ==
    Finalized2xx =>
        /\ up.pc \in {"raised", "returned"}
        /\ up.pc = "raised" <=> (FinalizeResults = <<>> \/ NonZeroCodes # {})

\* a 2xx response whose item carries status code 3
C16_Witness ==
    /\ Finalized2xx
    /\ up.pc = "raised"
    /\ FinalizeResults # <<>>
    /\ NonZeroCodes = {3}

(***************************************************************************)
(* Properties of handle_media: album resolution and the outcome of a run   *)
(***************************************************************************)
\* the id cached under the event's effective title when the event arrived
CachedId(w) == get_album_id(run[w].pre.album_cache, NewTitle(w))

\* C17: when the cache holds an id for the effective title the upload uses
\* that id and get_or_create_album is not called; otherwise it is called
\* exactly once, with the effective title, its result is cached under that
\* title and the upload uses it.
C17_AlbumResolution ==
    \A w \in Workers :
        /\ (run[w].pc # "idle" /\ CachedId(w) # NoAlbum)
             => /\ CallsTo(w, "get_or_create_album") = <<>>
                /\ \A i \in DOMAIN CallsTo(w, "upload_media") :
                     CallsTo(w, "upload_media")[i].album_id = CachedId(w)
        /\ (run[w].pc # "idle" /\ CachedId(w) = NoAlbum)
             => /\ Len(CallsTo(w, "get_or_create_album")) <= 1
                /\ \A i \in DOMAIN CallsTo(w, "get_or_create_album") :
                     CallsTo(w, "get_or_create_album")[i].title = NewTitle(w)
                /\ \A i \in DOMAIN CallsTo(w, "upload_media") :
                     /\ Len(CallsTo(w, "get_or_create_album")) = 1
                     /\ CallsTo(w, "get_or_create_album")[1].res = "ok"
                     /\ CallsTo(w, "get_or_create_album")[1].album_id # NoAlbum
                     /\ get_album_id(album_cache, NewTitle(w)) =
                            CallsTo(w, "get_or_create_album")[1].album_id
                     /\ CallsTo(w, "upload_media")[i].album_id =
                            CallsTo(w, "get_or_create_album")[1].album_id

\* an upload into the album cached by an earlier run
C17_Witness ==
    \E w \in Workers :
        /\ Done(w)
        /\ run[w].exit = "synced"
        /\ CachedId(w) # NoAlbum
        /\ CallsTo(w, "get_or_create_album") = <<>>
        /\ Len(CallsTo(w, "upload_media")) = 1
        /\ CallsTo(w, "upload_media")[1].album_id = CachedId(w)

\* the album id a run resolved
ResolvedId(w) ==
    IF CachedId(w) # NoAlbum THEN CachedId(w)
    ELSE IF CallsTo(w, "get_or_create_album") # <<>>
           THEN CallsTo(w, "get_or_create_album")[1].album_id
           ELSE NoAlbum

\* C18: after a fully successful run the event is marked processed, the cache
\* holds the resolved album id under the effective title, and upload_media
\* was called exactly once, with the fetched bytes, filename and MIME type and
\* that album id.
C18_SuccessfulRun ==
    \A w \in Workers :
        (Done(w) /\ run[w].exit = "synced")
          => /\ <<run[w].ev.chat_id, run[w].ev.message_id>> \in processed_messages
             /\ ResolvedId(w) # NoAlbum
             /\ \E r \in album_cache : r = <<NewTitle(w), ResolvedId(w)>>
             /\ \A r \in album_cache : r[1] = NewTitle(w) => r[2] = ResolvedId(w)
             /\ Len(CallsTo(w, "upload_media")) = 1
             /\ Len(CallsTo(w, "download_media")) = 1
             /\ CallsTo(w, "download_media")[1].res = "content"
             /\ CallsTo(w, "upload_media")[1].res = "ok"
             /\ CallsTo(w, "upload_media")[1].content = run[w].content
             /\ run[w].content \in Contents
             /\ CallsTo(w, "upload_media")[1].album_id = ResolvedId(w)
             /\ media_items[Len(media_items)].album_id = ResolvedId(w)

\* a successful run that created the album of its group
C18_Witness ==
    \E w \in Workers :
        /\ Done(w)
        /\ run[w].exit = "synced"
        /\ CachedId(w) = NoAlbum
        /\ Len(CallsTo(w, "get_or_create_album")) = 1
        /\ album_cache = {<<NewTitle(w), 1>>}
        /\ processed_messages = {Key(w)}

(***************************************************************************)
(* Properties of download_media                                            *)
(***************************************************************************)
\* the ceilings as stated: 200 MiB for photos, 10 GiB for videos and video
\* notes
StatedCeiling(kind) == IF kind = "photo" THEN Bytes(200, 0) ELSE Bytes(10240, 0)

\* C19: for every attachment kind, a declared size that is present and
\* strictly greater than the kind's ceiling raises the size-limit error, with
\* the kind's label, the size and the limit, before any get_file or download
\* call and without retry; a size equal to the ceiling, or an absent size,
\* does not raise it.
C19_SizeCeiling ==
    (dl.pc \notin {"idle", "download_media"}) =>
        LET kind == Attachment(dl.message)
            size == DeclaredSize(dl.message)
        IN IF kind # "none" /\ size # NoSize /\ SizeGt(size, StatedCeiling(kind))
             THEN /\ dl.pc = "raised"
                  /\ dl.exc = [type |-> "FileTooLargeError", label |-> kind,
                               size_bytes |-> size, limit_bytes |-> StatedCeiling(kind)]
                  /\ dl.log = <<>>
             ELSE dl.exc.type # "FileTooLargeError"

\* a video note of 10 GiB and one byte is refused
C19_Witness ==
    /\ dl.pc = "raised"
    /\ dl.exc.type = "FileTooLargeError"
    /\ dl.exc.label = "video_note"
    /\ dl.exc.size_bytes = Bytes(10240, 1)
    /\ dl.log = <<>>

(***************************************************************************)
(* Properties of handle_media: the conversation filter                     *)
(***************************************************************************)
\* the event is from a non-group conversation, or from a group outside a
\* non-empty allow-list
Filtered(w) ==
    \/ run[w].ev.type \notin {"group", "supergroup"}
    \/ /\ config.allowed_group_ids # {}
       /\ run[w].ev.chat_id \notin config.allowed_group_ids

\* C20: for an event from a non-group conversation, or from a group outside
\* a non-empty allow-list, handle_media returns without writing the store,
\* fetching or calling the remote service; an empty allow-list admits every
\* group.
C20_ConversationFilter ==
    \A w \in Workers :
        run[w].pc # "idle" =>
            IF Filtered(w)
              THEN /\ Done(w)
                   /\ run[w].exit \in {"not_group", "not_allowed"}
                   /\ run[w].calls = <<>>
                   /\ Store = run[w].pre
              ELSE run[w].exit \notin {"not_group", "not_allowed"}

\* a group outside the allow-list, refused in a store that holds a marker
C20_Witness ==
    \E w \in Workers :
        /\ Done(w)
        /\ run[w].exit = "not_allowed"
        /\ run[w].ev.type = "supergroup"
        /\ processed_messages # {}
        /\ run[w].calls = <<>>

(***************************************************************************)
(* Properties of handle_media: redelivery of a processed event             *)
(***************************************************************************)
\* C21: when the event is already marked processed as it arrives,
\* handle_media leaves the whole store as it found it, the group's stored
\* title and the album cache included even if the event carries another
\* title, and performs no fetch, no album resolution and no upload.
C21_ProcessedEventFrame ==
    \A w \in Workers :
        (run[w].pc # "idle"
           /\ <<run[w].ev.chat_id, run[w].ev.message_id>> \in run[w].pre.processed_messages)
          => /\ processed_messages = run[w].pre.processed_messages
             /\ album_cache = run[w].pre.album_cache
             /\ chat_titles = run[w].pre.chat_titles
             /\ run[w].calls = <<>>

\* a processed event redelivered under a new title of its group
C21_Witness ==
    \E w \in Workers :
        /\ Done(w)
        /\ run[w].exit = "already_processed"
        /\ Renamed(w)
        /\ get_album_id(album_cache, OldTitle(w)) # NoAlbum
        /\ get_chat_title(chat_titles, ChatId(w)) = OldTitle(w)

(***************************************************************************)
(* Properties of the store                                                 *)
(***************************************************************************)
\* the store before the last call
Before == db_op.pre

\* C22: after mark_processed(g, m) the pair is processed, and a second
\* mark_processed(g, m) raises no error and leaves the store exactly as it
\* was after the first.
C22_MarkIdempotent ==
    db_op.op = "mark_processed" =>
        /\ ~ db_op.raised
        /\ <<db_op.chat_id, db_op.message_id>> \in processed_messages
        /\ <<db_op.chat_id, db_op.message_id>> \in Before.processed_messages
             => Store = Before

\* a pair marked a second time, among other markers and entries
C22_Witness ==
    /\ db_op.op = "mark_processed"
    /\ <<db_op.chat_id, db_op.message_id>> \in Before.processed_messages
    /\ Cardinality(processed_messages) = 2
    /\ album_cache # {}
    /\ Store = Before

\* C23: once a pair is processed it stays processed: no call of the store
\* removes or alters a processed marker.
C23_MarkersStay == [][processed_messages \subseteq processed_messages']_vars

\* a delete_album_cache and a set_chat_title later, the marker is still there
C23_Witness ==
    /\ db_op.op = "delete_album_cache"
    /\ Before.album_cache # {}
    /\ album_cache = {}
    /\ chat_titles # {}
    /\ processed_messages = {<<1, 2>>}

\* C24: a mutating call changes only the record of its own key in its own
\* table: mark_processed(g, m) leaves every other pair as it was,
\* set_chat_title(g, t) leaves the titles of all other groups as they were,
\* and no call on one table changes another table.
C24_OwnKeyOnly ==
    /\ db_op.op = "mark_processed"
         => /\ \A g \in Groups, m \in MessageIds :
                 <<g, m>> # <<db_op.chat_id, db_op.message_id>>
                   => (<<g, m>> \in processed_messages
                         <=> <<g, m>> \in Before.processed_messages)
            /\ album_cache = Before.album_cache
            /\ chat_titles = Before.chat_titles
    /\ db_op.op = "set_chat_title"
         => /\ {r \in chat_titles : r[1] # db_op.chat_id}
                 = {r \in Before.chat_titles : r[1] # db_op.chat_id}
            /\ album_cache = Before.album_cache
            /\ processed_messages = Before.processed_messages
    /\ db_op.op \in {"set_album_id", "delete_album_cache"}
         => /\ {r \in album_cache : r[1] # db_op.title}
                 = {r \in Before.album_cache : r[1] # db_op.title}
            /\ chat_titles = Before.chat_titles
            /\ processed_messages = Before.processed_messages
    /\ db_op.op \in {"is_processed", "get_album_id", "get_chat_title"} => Store = Before

\* a group retitled next to another group with another title
C24_Witness ==
    /\ db_op.op = "set_chat_title"
    /\ db_op.chat_id = 1
    /\ db_op.title = <<"B">>
    /\ chat_titles = {<<1, <<"B">>>>, <<2, <<"A">>>>}
    /\ Before.chat_titles = {<<1, <<"A">>>>, <<2, <<"A">>>>}
    /\ processed_messages # {}

\* C25: the album cache holds at most one entry per title at any time, and
\* after set_album_id(t, a) the entry of t is a, also when t had another id
\* before (overwrite, not merge).
C25_OneEntryPerTitle ==
    /\ \A r1, r2 \in album_cache : r1[1] = r2[1] => r1[2] = r2[2]
    /\ db_op.op = "set_album_id"
         => /\ ~ db_op.raised
            /\ {r \in album_cache : r[1] = db_op.title} = {<<db_op.title, db_op.album_id>>}

\* set_album_id(A, 1) followed by set_album_id(A, 2)
C25_Witness ==
    /\ db_op.op = "set_album_id"
    /\ db_op.title = <<"A">>
    /\ db_op.album_id = 2
    /\ <<<<"A">>, 1>> \in Before.album_cache
    /\ <<<<"A">>, 2>> \in album_cache

\* C26: delete_album_cache(t) on a title without entry raises no error and
\* leaves the store unchanged; on a title with an entry it removes that entry
\* and leaves the entries of all other titles unchanged.
C26_DeleteAlbumCache ==
    db_op.op = "delete_album_cache" =>
        /\ ~ db_op.raised
        /\ \A r \in album_cache : r[1] # db_op.title
        /\ (\A r \in Before.album_cache : r[1] # db_op.title) => Store = Before
        /\ {r \in album_cache : r[1] # db_op.title}
             = {r \in Before.album_cache : r[1] # db_op.title}
        /\ processed_messages = Before.processed_messages
        /\ chat_titles = Before.chat_titles

\* the entry of A removed, the entry of B kept
C26_Witness ==
    /\ db_op.op = "delete_album_cache"
    /\ db_op.title = <<"A">>
    /\ Before.album_cache = {<<<<"A">>, 1>>, <<<<"B">>, 2>>}
    /\ album_cache = {<<<<"B">>, 2>>}

(***************************************************************************)
(* Properties of the link command                                          *)
(***************************************************************************)
\* the query is from a non-group conversation, or from a group outside a
\* non-empty allow-list
LkFiltered ==
    \/ lk.ev.type \notin {"group", "supergroup"}
    \/ /\ config.allowed_group_ids # {}
       /\ lk.ev.chat_id \notin config.allowed_group_ids
\* the album-cache entries of the group's effective title
LkEntries == {r \in album_cache : r[1] = EffectiveTitle(lk.ev.title, lk.ev.chat_id)}

\* C27: for an allowed group whose effective title has no album-cache entry
\* the link query replies 'No album found', does not call
\* get_album_product_url, changes nothing in the store and uploads nothing;
\* for a non-group conversation or a group outside a configured allow-list
\* it sends no reply at all.
C27_NoAlbumFound ==
    lk.pc = "done" =>
        /\ LkFiltered => lk.replies = <<>> /\ lk.calls = <<>>
        /\ (~ LkFiltered /\ LkEntries = {})
             => /\ Len(lk.replies) = 1
                /\ lk.replies[1].kind = "No album found"
                /\ lk.calls = <<>>
                /\ Store = lk.pre
                /\ media_items = <<>>
                /\ albums = <<>>

\* a supergroup without a title of its own, in a cache that holds albums
C27_Witness ==
    /\ lk.pc = "done"
    /\ lk.ev.type = "supergroup"
    /\ lk.ev.title = None
    /\ album_cache # {}
    /\ config.allowed_group_ids = {1}
    /\ Len(lk.replies) = 1
    /\ lk.replies[1].kind = "No album found"

\* C28: with a cached album the link query calls get_album_product_url
\* exactly once, with the cached album id, and replies with the returned URL;
\* when that call raises a remote-service error it replies 'Could not
\* retrieve' instead of propagating the error.
C28_CachedAlbumUrl ==
    (lk.pc = "done" /\ ~ LkFiltered /\ LkEntries # {}) =>
        /\ Len(lk.calls) = 1
        /\ <<EffectiveTitle(lk.ev.title, lk.ev.chat_id), lk.calls[1].album_id>> \in album_cache
        /\ Len(lk.replies) = 1
        /\ lk.calls[1].res = "ok"
             => lk.replies[1] = [kind |-> "url", url |-> <<"https", lk.calls[1].album_id>>]
        /\ lk.calls[1].res = "GooglePhotosError"
             => lk.replies[1].kind = "Could not retrieve"
        /\ lk.exit # "raised"
        /\ Store = lk.pre

\* the remote call failed for the album of B, next to the album of A
C28_Witness ==
    /\ lk.pc = "done"
    /\ lk.ev.title = <<"B">>
    /\ album_cache = {<<<<"A">>, 1>>, <<<<"B">>, 2>>}
    /\ lk.calls = <<[fn |-> "get_album_product_url", album_id |-> 2,
                     res |-> "GooglePhotosError"]>>
    /\ lk.replies[1].kind = "Could not retrieve"

(***************************************************************************)
(* Properties of get_album_product_url                                     *)
(***************************************************************************)
\* the productUrl of the response, if it has one
PuUrls == {r[2] : r \in {r \in pu.data : r[1] = "productUrl" /\ r[2] # <<>>}}
SuccessfulRequests == {i \in 1..Sent : Is2xx(Requests[i])}

\* C29: get_album_product_url returns the productUrl of a 2xx response; a
\* 2xx response without productUrl makes it raise a remote-service error,
\* after that one request and without any retry.
C29_ProductUrl ==
    /\ pu.pc = "returned" => rq_pc = "returned" /\ PuUrls = {pu.result}
    /\ (pu.pc \in {"returned", "raised"} /\ rq_pc = "returned")
         => /\ SuccessfulRequests = {Sent}
            /\ rq_log[Len(rq_log)].op = "request"
            /\ PuUrls = {} => /\ pu.pc = "raised"
                              /\ pu.exc.type = "GooglePhotosError"
            /\ PuUrls # {} => pu.pc = "returned"

\* a 503, then a 200 without productUrl: raised after two requests
C29_Witness ==
    /\ pu.pc = "raised"
    /\ rq_pc = "returned"
    /\ pu.data = {}
    /\ Sent = 2
    /\ Requests[1].status = 503
    /\ pu.exc.type = "GooglePhotosError"

(***************************************************************************)
(* Properties of _download_with_retry                                      *)
(***************************************************************************)
DlOps(op) == SelectSeq(dl.log, LAMBDA e : e.op = op)
\* the waits of the fetch retry loop as stated: 2 s, then 4 s
StatedFetchWaits == <<2, 4>>

\* C30: _download_with_retry makes at most 3 transfer attempts, returns on
\* the first attempt that succeeds without a further attempt, waits 2 s
\* before attempt 2 and 4 s before attempt 3 and never before attempt 1, and
\* raises the failure of the last attempt when every attempt fails.
C30_FetchRetry ==
    /\ Len(DlOps("get_file")) <= 3
    /\ \A i \in DOMAIN dl.log :
         /\ dl.log[i].op = "get_file" => (i = 1 \/ dl.log[i - 1].op = "sleep")
         /\ dl.log[i].op = "sleep" => i > 1 /\ dl.log[i - 1].arg = 0
         /\ (dl.log[i].op = "download" /\ dl.log[i].arg = 1) => i = Len(dl.log)
    /\ \A k \in DOMAIN DlOps("sleep") :
         /\ k <= Len(StatedFetchWaits)
         /\ DlOps("sleep")[k].arg = StatedFetchWaits[k]
    /\ Len(DlOps("sleep")) =
         (IF Len(DlOps("get_file")) = 0 THEN 0
          ELSE Len(DlOps("get_file")) - 1 + (IF dl.pc = "get_file" THEN 1 ELSE 0))
    /\ dl.pc = "returned"
         => dl.log[Len(dl.log)] = [op |-> "download", arg |-> 1]
    /\ (dl.pc = "raised" /\ dl.exc.type # "FileTooLargeError")
         => /\ Len(DlOps("get_file")) = 3
            /\ dl.log[Len(dl.log)].arg = 0
            /\ dl.exc.type = "Exception"
            /\ dl.raised_of = 3

\* get_file fails, the download fails, the third attempt succeeds
C30_Witness ==
    /\ dl.pc = "returned"
    /\ Len(DlOps("get_file")) = 3
    /\ DlOps("download") = <<[op |-> "download", arg |-> 0], [op |-> "download", arg |-> 1]>>
    /\ DlOps("sleep") = <<[op |-> "sleep", arg |-> 2], [op |-> "sleep", arg |-> 4]>>

(***************************************************************************)
(* handle_media with chats whose reported title is absent, empty, blank or *)
(* padded with whitespace                                                   *)
(***************************************************************************)
BlankTitles == {None, <<>>, <<" ", "\t">>, <<" ", "A", "\n">>}
TitleEvents ==
    [type : {"supergroup"}, chat_id : Groups, message_id : {1}, title : BlankTitles]

NextTitle ==
    /\ \E w \in SeqWorkers : DeliverOf(w, TitleEvents) \/ Steps(w)
    /\ UNCHANGED <<rq_vars, cl_vars, aux_vars>>
SpecTitle == Init /\ [][NextTitle]_vars

\* the text has a character that is not whitespace
HasInk(s) == s # None /\ \E i \in 1..Len(s) : s[i] \notin {" ", "\t", "\n"}

\* the title the claim states for an event
StatedTitle(e) ==
    IF HasInk(e.title) THEN e.title
    ELSE <<"C", "h", "a", "t", "_">> \o (IF e.chat_id = 1 THEN <<"1">> ELSE <<"2">>)

\* C31: the effective title of a run is the reported title when that has a
\* non-whitespace character and the placeholder Chat_<group id> otherwise; it
\* is the title passed to album resolution; no stored chat title and no key of
\* the album cache is empty or whitespace only.
C31_EffectiveTitleNeverBlank ==
    /\ \A w \in Workers :
         /\ run[w].chat_title # None =>
              /\ run[w].chat_title = StatedTitle(run[w].ev)
              /\ HasInk(run[w].chat_title)
         /\ \A i \in 1..Len(run[w].calls) :
              run[w].calls[i].fn = "get_or_create_album" =>
                  /\ HasInk(run[w].calls[i].title)
                  /\ run[w].calls[i].title = StatedTitle(run[w].ev)
    /\ \A r \in chat_titles : HasInk(r[2])
    /\ \A r \in album_cache : HasInk(r[1])
    /\ \A i \in 1..Len(albums) : HasInk(albums[i])

\* a run for a chat reporting a whitespace-only title stored the placeholder
\* as the chat's title and as a key of the album cache
C31_Witness ==
    \E w \in Workers :
        /\ run[w].ev.title = <<" ", "\t">>
        /\ run[w].exit = "synced"
        /\ <<run[w].ev.chat_id, StatedTitle(run[w].ev)>> \in chat_titles
        /\ \E r \in album_cache : r[1] = StatedTitle(run[w].ev)

(***************************************************************************)
(* handle_media, two executions whose awaits interleave                    *)
(***************************************************************************)
\* two events of one group: message 1 sent under title A, message 2 under B
OverlapEvents ==
    {[type |-> "group", chat_id |-> 1, message_id |-> 1, title |-> <<"A">>],
     [type |-> "group", chat_id |-> 1, message_id |-> 2, title |-> <<"B">>]}

\* the store and the remote albums the two executions start from: nothing, or
\* group 1 known as A with its album cached
StartStates ==
    {[chat_titles |-> {}, album_cache |-> {}, albums |-> <<>>],
     [chat_titles |-> {<<1, <<"A">>>>}, album_cache |-> {<<<<"A">>, 1>>},
      albums |-> << <<"A">> >>]}

\* google_photos.py line 69: album_id = await self._find_album_by_title(title),
\* as its own step of get_or_create_album
FindAlbumCall(w) ==
    /\ run[w].pc = "get_or_create_album"
    /\ \E res \in RemoteResults :
         LET found == FindAlbumByTitle(albums, run[w].chat_title)
             logged(id) == [run EXCEPT ![w].calls =
                               Append(run[w].calls,
                                      CallGetOrCreate(run[w].chat_title, id, res))]
         IN  CASE res = "ok" ->
                     run' = IF found # NoAlbum
                              THEN [logged(found) EXCEPT ![w].album_id = found,
                                                         ![w].pc = "set_album_id"]
                              ELSE Goto(w, "create_album")
               [] res = "GooglePhotosError" ->
                     run' = [logged(NoAlbum) EXCEPT ![w].pc = "done", ![w].exit = "gp_error",
                                                    ![w].at = "get_or_create_album"]
               [] res = "Exception" ->
                     run' = [logged(NoAlbum) EXCEPT ![w].pc = "done",
                                                    ![w].exit = "upload_failed",
                                                    ![w].at = "get_or_create_album"]
    /\ UNCHANGED <<db_vars, albums, media_items, config, deliveries, store_faults>>

\* google_photos.py line 72: album_id = await self._create_album(title)
CreateAlbumCall(w) ==
    /\ run[w].pc = "create_album"
    /\ \E res \in RemoteResults :
         LET id == Len(albums) + 1
             logged(a) == [run EXCEPT ![w].calls =
                              Append(run[w].calls,
                                     CallGetOrCreate(run[w].chat_title, a, res))]
         IN  CASE res = "ok" ->
                     /\ albums' = Append(albums, TitleTrim(run[w].chat_title))
                     /\ run' = [logged(id) EXCEPT ![w].album_id = id,
                                                  ![w].pc = "set_album_id"]
               [] res = "GooglePhotosError" ->
                     /\ run' = [logged(NoAlbum) EXCEPT ![w].pc = "done",
                                                       ![w].exit = "gp_error",
                                                       ![w].at = "get_or_create_album"]
                     /\ UNCHANGED albums
               [] res = "Exception" ->
                     /\ run' = [logged(NoAlbum) EXCEPT ![w].pc = "done",
                                                       ![w].exit = "upload_failed",
                                                       ![w].at = "get_or_create_album"]
                     /\ UNCHANGED albums
    /\ UNCHANGED <<db_vars, media_items, config, deliveries, store_faults>>

InitOverlap ==
    /\ RqIdle
    /\ ClIdle
    /\ AuxIdle
    /\ processed_messages = {}
    /\ \E s \in StartStates :
         /\ chat_titles = s.chat_titles
         /\ album_cache = s.album_cache
         /\ albums = s.albums
    /\ media_items = <<>>
    /\ config = [allowed_group_ids |-> {}]
    /\ run = [w \in Workers |-> IdleRun]
    /\ deliveries = 0
    /\ store_faults = FALSE

\* each execution is started once
NextOverlap ==
    /\ \E w \in Workers :
         \/ run[w].pc = "idle" /\ DeliverOf(w, OverlapEvents)
         \/ IsProcessed(w)
         \/ GetChatTitle(w)
         \/ DeleteAlbumCache(w)
         \/ SetChatTitle(w)
         \/ DownloadMedia(w)
         \/ GetAlbumId(w)
         \/ FindAlbumCall(w)
         \/ CreateAlbumCall(w)
         \/ SetAlbumId(w)
         \/ UploadMedia(w)
         \/ MarkProcessed(w)
    /\ UNCHANGED <<rq_vars, cl_vars, aux_vars>>
SpecOverlap == InitOverlap /\ [][NextOverlap]_vars

\* both executions have finished
BothDone == \A w \in Workers : run[w].pc = "done"
\* the two executions were in flight at the same time
Overlapped == \E w \in Workers : run[w].overlap
\* both executions handle one and the same event
SameEvent == run[1].ev = run[2].ev /\ run[1].ev # NoEvent
\* the processed markers of the event of execution w
MarkersOf(w) ==
    {r \in processed_messages : r = <<run[w].ev.chat_id, run[w].ev.message_id>>}
\* the album-cache entries for the title of the event of execution w
EntriesOf(w) == {r \in album_cache : r[1] = run[w].ev.title}
\* a store operation of execution w raised
StoreRaised(w) ==
    run[w].exit = "raised" \/ run[w].at \in {"get_album_id", "set_album_id"}

\* C32 as stated: once two overlapping executions for the same event have
\* finished, no store operation has raised, the store holds exactly one
\* processed marker for the event, the stored title is the event's title and
\* the album cache holds exactly one entry for that title.
C32_ExactlyOneMarkerAndEntry ==
    (SameEvent /\ Overlapped /\ BothDone) =>
        /\ \A w \in Workers : ~ StoreRaised(w)
        /\ Cardinality(MarkersOf(1)) = 1
        /\ <<run[1].ev.chat_id, run[1].ev.title>> \in chat_titles
        /\ Cardinality(EntriesOf(1)) = 1

\* C32 (amended): in two overlapping executions for the same event no store
\* operation raises; once both have finished the store holds at most one
\* processed marker for the event, exactly one if either execution ended
\* synced and none otherwise; the stored title of the group is the event's
\* title and no other; the album cache holds at most one entry for that
\* title, exactly one if either execution reached the upload call.
C32_RedundantCallsSafe ==
    (SameEvent /\ Overlapped) =>
        /\ \A w \in Workers : ~ StoreRaised(w)
        /\ BothDone =>
             /\ Cardinality(MarkersOf(1)) =
                  (IF \E w \in Workers : run[w].exit = "synced" THEN 1 ELSE 0)
             /\ {r \in chat_titles : r[1] = run[1].ev.chat_id} =
                  {<<run[1].ev.chat_id, run[1].ev.title>>}
             /\ Cardinality(EntriesOf(1)) <= 1
             /\ (\E w \in Workers : \E i \in 1..Len(run[w].calls) :
                     run[w].calls[i].fn = "upload_media")
                  => Cardinality(EntriesOf(1)) = 1

\* two overlapping executions for the same event both reached mark_processed
\* and both ended synced, leaving one marker
C32_Witness ==
    /\ SameEvent
    /\ Overlapped
    /\ \A w \in Workers : run[w].exit = "synced"
    /\ Cardinality(MarkersOf(1)) = 1

\* the two executions handle events of one group that carry different titles
TitlesDiffer ==
    /\ \A w \in Workers : run[w].ev # NoEvent
    /\ run[1].ev.chat_id = run[2].ev.chat_id
    /\ run[1].ev.title # run[2].ev.title
\* execution w was started first
Earlier(w) == run[w].arrival = 1
\* the group's stored title is the title of the event of execution w and the
\* album cache holds an entry for that title
KeepsTitleOf(w) ==
    /\ <<run[w].ev.chat_id, run[w].ev.title>> \in chat_titles
    /\ \E r \in album_cache : r[1] = run[w].ev.title

\* C40: when two events of one group with different titles are handled one
\* after the other, then after both have finished the stored title is the
\* later event's title and the album cache holds no entry for the earlier
\* event's title: the state in which the earlier title is stored and cached
\* is reached only by executions that overlap.
C40_SerialRunsKeepRename ==
    (TitlesDiffer /\ BothDone /\ ~ Overlapped) =>
        \A w \in Workers : Earlier(w) =>
            /\ <<run[w].ev.chat_id, run[w].ev.title>> \notin chat_titles
            /\ ~ \E r \in album_cache : r[1] = run[w].ev.title
            /\ ~ KeepsTitleOf(w)

\* two overlapping executions have finished; the later-arrived one detected
\* the rename away from the earlier event's title, which was cached when the
\* executions started, and yet that title is the stored one and is cached
C40_Witness ==
    /\ TitlesDiffer
    /\ BothDone
    /\ Overlapped
    /\ \E w \in Workers, v \in Workers :
         /\ Earlier(w)
         /\ v # w
         /\ \E r \in run[w].pre.album_cache : r[1] = run[w].ev.title
         /\ run[v].stored_title = run[w].ev.title
         /\ run[v].exit = "synced"
         /\ KeepsTitleOf(w)

(***************************************************************************)
(* Properties of handle_media: the album cache and the remote albums       *)
(***************************************************************************)
\* the remote album id carries exactly the title t
AlbumTitled(id, t) == id \in 1..Len(albums) /\ albums[id] = t
\* the title stored for group g is t
StoredTitleIs(g, t) == <<g, t>> \in chat_titles

\* C33: with events handled one at a time, every album-cache entry maps its
\* title to an album that album resolution returned for exactly that title
\* (the remote album of that id carries the title); a run's uploads go to an
\* album of the run's effective title; and for every group whose stored title
\* is T, the cache entry for T, if present, is the album in which the group's
\* uploads under T are.
C33_CacheCoherent ==
    /\ \A r \in album_cache : AlbumTitled(r[2], r[1])
    /\ \A w \in Workers : \A i \in 1..Len(run[w].calls) :
         run[w].calls[i].fn = "upload_media" =>
             /\ AlbumTitled(run[w].calls[i].album_id, run[w].chat_title)
             /\ StoredTitleIs(run[w].ev.chat_id, run[w].chat_title)
             /\ <<run[w].chat_title, run[w].calls[i].album_id>> \in album_cache
    /\ \A g \in Groups : \A r \in album_cache :
         StoredTitleIs(g, r[1]) =>
             \A i \in 1..Len(media_items) :
                 (media_items[i].chat_id = g /\ AlbumTitled(media_items[i].album_id, r[1]))
                   => media_items[i].album_id = r[2]

\* two groups share a stored title after a rename; the cache entry of that
\* title is the album holding the uploads of both
C33_Witness ==
    \E t \in {<<"A">>, <<"B">>} : \E r \in album_cache :
        /\ r[1] = t
        /\ \A g \in Groups : StoredTitleIs(g, t)
        /\ Len(albums) = 2
        /\ \A g \in Groups : \E i \in 1..Len(media_items) :
             media_items[i].chat_id = g /\ media_items[i].album_id = r[2]

(***************************************************************************)
(* get_or_create_album called twice with the same title                    *)
(***************************************************************************)
\* a title one character longer than the limit of _create_album
LongTitle == [i \in 1..(ALBUM_TITLE_MAX + 1) |-> "a"]
TwiceTitles == {<<"A">>, LongTitle}
\* what the service lists before the first call: at most two albums, titled
\* A, B or the first 500 characters of the long title
TwiceListings ==
    UNION {[1..n -> {<<"A">>, <<"B">>, SubSeq(LongTitle, 1, ALBUM_TITLE_MAX)}] : n \in 0..2}

GocTwiceInit ==
    /\ albums \in TwiceListings
    /\ \E title \in TwiceTitles :
         goc = [GocIdle EXCEPT !.pc = "list", !.title = title, !.listing = albums]

\* the caller calls get_or_create_album(title) a second time after the first
\* call returned; the log keeps the id the first call returned
GocAgain ==
    /\ goc.pc = "returned"
    /\ \A i \in 1..Len(goc.log) : goc.log[i].op # "call"
    /\ goc' = [goc EXCEPT !.pc = "list", !.page_token = NoPageToken, !.read = 0,
                          !.result = NoAlbum,
                          !.log = Append(@, [op |-> "call", at |-> goc.result,
                                             next |-> NoPageToken, res |-> "ok"])]
    /\ UNCHANGED albums

InitAlbumTwice ==
    /\ RqIdle
    /\ GocTwiceInit
    /\ up = UpIdle
    /\ dl = DlIdle
    /\ AuxIdle
    /\ processed_messages = {}
    /\ album_cache = {}
    /\ chat_titles = {}
    /\ media_items = <<>>
    /\ config = [allowed_group_ids |-> {}]
    /\ run = [w \in Workers |-> IdleRun]
    /\ deliveries = 0
    /\ store_faults = FALSE
NextAlbumTwice ==
    /\ GocList \/ GocCreate \/ GocAgain
    /\ UNCHANGED <<rq_vars, db_vars, media_items, config, run, deliveries, store_faults, up, dl,
                   aux_vars>>
SpecAlbumTwice == InitAlbumTwice /\ [][NextAlbumTwice]_vars

\* the position in the log at which the second call starts, 0 before it
SecondCallAt ==
    IF \E i \in 1..Len(goc.log) : goc.log[i].op = "call"
      THEN CHOOSE i \in 1..Len(goc.log) : goc.log[i].op = "call"
      ELSE 0

\* C34: when a second call of get_or_create_album with the same title has
\* returned, and nothing else changed the remote albums in between, it
\* returned the id the first call returned and created no album.
C34_Idempotent ==
    (goc.pc = "returned" /\ SecondCallAt # 0) =>
        /\ goc.result = goc.log[SecondCallAt].at
        /\ \A i \in (SecondCallAt + 1)..Len(goc.log) : goc.log[i].op # "create"

\* C34 for titles of at most 500 characters
C34_IdempotentShort ==
    Len(goc.title) <= 500 => C34_Idempotent

(***************************************************************************)
(* handle_media for a group that is renamed away from a title and back     *)
(***************************************************************************)
\* three messages of group 1, sent under a title of 501 characters or under B
RenameEvents ==
    [type : {"group"}, chat_id : {1}, message_id : {1, 2, 3}, title : {LongTitle, <<"B">>}]

NextRename ==
    /\ \E w \in SeqWorkers : DeliverOf(w, RenameEvents) \/ Steps(w)
    /\ UNCHANGED <<rq_vars, cl_vars, aux_vars>>
SpecRename == Init /\ [][NextRename]_vars

\* the title under which the album of the group title t is created
CreatedAs(t) == IF Len(t) > 500 THEN SubSeq(t, 1, 500) ELSE t
\* the remote albums created for the group title t
AlbumsFor(t) == {i \in 1..Len(albums) : albums[i] = CreatedAs(t)}
\* the uploads made before the last one into an album created for t
EarlierUploads(t) ==
    {j \in 1..(Len(media_items) - 1) : media_items[j].album_id \in AlbumsFor(t)}

\* C35: when an event with effective title T is processed successfully after
\* rename detection deleted the cache entry of T (the cache held no entry for T
\* when the event arrived) while the album of earlier uploads under T still
\* exists remotely, the event is uploaded to the album id those earlier
\* uploads used and no second album is created for T.
C35_RenameBackReusesAlbum ==
    \A w \in Workers :
        (Done(w) /\ run[w].exit = "synced"
           /\ (\A r \in run[w].pre.album_cache : r[1] # run[w].chat_title)
           /\ EarlierUploads(run[w].chat_title) # {})
          => /\ \A j \in EarlierUploads(run[w].chat_title) :
                  media_items[j].album_id = media_items[Len(media_items)].album_id
             /\ Cardinality(AlbumsFor(run[w].chat_title)) = 1

\* a group renamed away from a title and back, its album found again
C35_Witness ==
    \E w \in Workers :
        /\ Done(w)
        /\ run[w].exit = "synced"
        /\ \A r \in run[w].pre.album_cache : r[1] # run[w].chat_title
        /\ EarlierUploads(run[w].chat_title) # {}
        /\ Cardinality(AlbumsFor(run[w].chat_title)) = 1

(***************************************************************************)
(* Properties of download_media: the result                                *)
(***************************************************************************)
\* C36: the filename in the result of a successful fetch is not empty and
\* contains neither "/" nor "\", for every attachment kind and every path or
\* file name the source provides.
C36_FilenameSafe ==
    dl.pc = "returned" =>
        /\ dl.result.filename # <<>>
        /\ \A i \in 1..Len(dl.result.filename) : dl.result.filename[i] \notin {"/", "\\"}

\* the photo variants whose declared size no other declared size exceeds
LargestVariants(photo) ==
    {i \in 1..Len(photo) :
        \A j \in 1..Len(photo) :
            ~ (photo[j].mib > photo[i].mib
                 \/ (photo[j].mib = photo[i].mib /\ photo[j].rest > photo[i].rest))}

\* C37: for a photo fetch checks the size of, and downloads, a variant of the
\* largest size among those offered, in whatever order they are listed: a
\* photo whose largest variant exceeds 200 MiB is refused, and, when every
\* variant declares its size, the variant that is fetched is a largest one.
C37_LargestVariant ==
    (dl.pc # "idle" /\ dl.message.photo # <<>>) =>
        /\ (dl.pc # "download_media"
              /\ \E i \in 1..Len(dl.message.photo) :
                    \/ dl.message.photo[i].mib > 200
                    \/ dl.message.photo[i].mib = 200 /\ dl.message.photo[i].rest > 0)
             => /\ dl.pc = "raised"
                /\ dl.exc.type = "FileTooLargeError"
        /\ (dl.variant # 0 /\ \A i \in 1..Len(dl.message.photo) : dl.message.photo[i].mib >= 0)
             => dl.variant \in LargestVariants(dl.message.photo)

(***************************************************************************)
(* Properties of _request_with_retry: credential failures and waits        *)
(***************************************************************************)
\* the call has ended
RqEnded == rq_pc \in {"returned", "raised"}
\* the positions of the log at which acquiring the credential failed
TokenFailures == {i \in DOMAIN rq_log : rq_log[i].op = "token" /\ rq_log[i].kind = "fail"}

\* C38: when acquiring the credential fails on an attempt, the call ends at
\* once with that failure: nothing follows the failed acquisition, neither a
\* request of that attempt nor a further wait or attempt, whatever number of
\* attempts remains.
C38_CredentialFailureEndsCall ==
    /\ \A i \in TokenFailures :
         /\ i = Len(rq_log)
         /\ rq_pc = "raised"
         /\ rq_result.kind = "raised"
         /\ rq_result.exc.type = "RefreshError"
    /\ (rq_pc = "raised" /\ rq_result.exc.type = "RefreshError") => TokenFailures # {}

\* the credential could not be acquired for the second attempt, after a wait,
\* with attempts remaining
C38_Witness ==
    /\ rq_pc = "raised"
    /\ Len(rq_log) = 4
    /\ rq_log[2].op = "request"
    /\ rq_log[3].op = "sleep"
    /\ rq_log[4].op = "token" /\ rq_log[4].kind = "fail"
    /\ attempt + 1 < max_retries

\* C39 as stated: every wait is immediately followed by an attempt that sends
\* its request, so a call that has ended, having sent a request, made one wait
\* less than requests.
C39_WaitsAreAttemptsMinusOne ==
    (RqEnded /\ \E i \in DOMAIN rq_log : rq_log[i].op = "request") =>
        /\ Len(SelectSeq(rq_log, LAMBDA e : e.op = "sleep")) =
             Len(SelectSeq(rq_log, LAMBDA e : e.op = "request")) - 1
        /\ rq_log # <<>> => rq_log[Len(rq_log)].op # "sleep"

\* C39 (amended): a wait happens only right after a failed request and right
\* before the credential acquisition of the next attempt; no wait follows the
\* last failed attempt before the error is raised; a call that has ended made
\* one wait less than requests, unless it sent no request at all or ended
\* with a failed credential acquisition, in which case it made as many waits
\* as requests.
C39_WaitsPrecedeAttempts ==
    /\ \A i \in DOMAIN rq_log :
         rq_log[i].op = "sleep" =>
             /\ i > 1
             /\ rq_log[i - 1].op = "request"
             /\ i < Len(rq_log) => rq_log[i + 1].op = "token"
             /\ i = Len(rq_log) => rq_pc \notin {"returned", "raised", "for"}
    /\ RqEnded =>
         Len(SelectSeq(rq_log, LAMBDA e : e.op = "sleep")) =
             IF TokenFailures # {} \/ Len(SelectSeq(rq_log, LAMBDA e : e.op = "request")) = 0
               THEN Len(SelectSeq(rq_log, LAMBDA e : e.op = "request"))
               ELSE Len(SelectSeq(rq_log, LAMBDA e : e.op = "request")) - 1

\* a call that raised after all its attempts failed, having waited before
\* each attempt but the first and not after the last
C39_Witness ==
    /\ rq_pc = "raised"
    /\ max_retries = 3
    /\ Len(SelectSeq(rq_log, LAMBDA e : e.op = "request")) = 3
    /\ Len(SelectSeq(rq_log, LAMBDA e : e.op = "sleep")) = 2
    /\ rq_log[Len(rq_log)].op = "request"

====
